---------------------------- MODULE Spec2Model ----------------------------
(***************************************************************************)
(* A model of x-dl (src/main.ts): the two acquisition strategies run by    *)
(* main, the process-wide browserInstance / ffmpegProcess slots, the       *)
(* SIGINT listener that runs asynchronously to the main flow, and the      *)
(* candidate registry with the quality selection both strategies apply.    *)
(*                                                                         *)
(* The program is single threaded with cooperative suspension.  A state of *)
(* the control model is a state in which the main flow is parked at an     *)
(* await; an action is the synchronous code that runs from the resolution  *)
(* of that await to the next one.  The SIGINT listener is an async         *)
(* function of its own: it may start at any await of the main flow, and    *)
(* its own await (browserInstance.close()) lets the main flow run on.      *)
(* Promises that are ready at the same time are resumed in either order.   *)
(*                                                                         *)
(* Three specifications share the variables:                               *)
(*   Spec        the control flow, with downloadFile step by step and the  *)
(*               results and progress indicators of executeFFmpeg;         *)
(*   SpecSelect  discovery into the registry and the quality selection;    *)
(*   SpecStderr  processStderr reading the diagnostic stream of ffmpeg in  *)
(*               chunks cut at any character.                              *)
(***************************************************************************)
EXTENDS Integers, Sequences, FiniteSets, TLC

VARIABLES
    \* ---- control flow: main, tryFastVideoDownload, downloadXVideo ----
    mainPc,          \* the await the main flow is parked at
    fastEnabled,     \* parsedArgs.fast
    urlValid,        \* the URL passes main's host-substring check
    browserInstance, \* the process-wide slot, main.ts:85
    browserState,    \* each browser: "none" | "open" | "closing" | "closed"
    ffmpegProcess,   \* the process-wide slot, main.ts:87
    ffmpegState,     \* each subprocess: "none" | "running" | "exitedOk" | "exitedErr"
    termSent,        \* the subprocesses that were sent SIGTERM
    sigPc,           \* the SIGINT listener: "idle" | "awaitClose" | "done"
    sigBrowser,      \* the browser whose close() the listener awaits
    exited,          \* the process has exited
    exitCode,        \* its exit status (meaningful once exited)
    fastRuns,        \* times the fast strategy opened (tried to open) a session
    fullRuns,        \* times downloadXVideo was entered
    fastResult,      \* "none" | "true" | "false" | "threw"
    fullResult,      \* "none" | "returned" | "threw"
    fullOutcome,     \* what downloadXVideo's finally block will complete with
    progress,        \* each progress indicator: "none" | "started" | "finished"
                     \* | "updatedAfterFinish"
    ffmpegResult,    \* what executeFFmpeg returned: "none" | "true" | "false"
    download,        \* the locals of the running downloadFile
    fullTrace,       \* what downloadXVideo's discovery did so far
    \* ---- discovery and selection ----
    strategy,        \* the strategy that selected: "none" | "fast" | "full"
    qualitySetting,  \* the tier it was called with (quality in downloadXVideo)
    mediaUrls,       \* the registry: four insertion-ordered sets
    otherUrls,       \* the registry of the same run with callbacks reordered
    held,            \* the event the reordered run has yet to see
    selPhase,        \* "idle" | "observing" | "scraped" | "selected"
    pendingJson,     \* a handler is parked at its await of response.json()
    selection,       \* the selected [videoUrl, audioUrl]
    \* ---- the diagnostic stream of ffmpeg, read by processStderr ----
    diagnostics,     \* the characters the subprocess writes to stderr
    delivered,       \* how many of them reader.read() has handed over
    readerDone,      \* reader.read() reported done
    duration,        \* executeFFmpeg's local, in hundredths of a second
    currentTime,     \* executeFFmpeg's local, in hundredths of a second
    speed,           \* executeFFmpeg's local, a string
    progressRatio    \* executeFFmpeg's local, in thousandths

ctlVars == <<mainPc, fastEnabled, urlValid, browserInstance, browserState,
             ffmpegProcess, ffmpegState, termSent, sigPc, sigBrowser, exited,
             exitCode, fastRuns, fullRuns, fastResult, fullResult, fullOutcome,
             progress, ffmpegResult, download, fullTrace>>

selVars == <<strategy, qualitySetting, mediaUrls, otherUrls, held, selPhase,
             pendingJson, selection>>

errVars == <<diagnostics, delivered, readerDone, duration, currentTime, speed,
            progressRatio>>

vars == <<ctlVars, selVars, errVars>>

\* Exit statuses the program uses.
ExitInterrupt == 130
ExitFailure == 1

Null == "null"
Browsers == {"fastBrowser", "fullBrowser"}
Subprocesses == {"fastFfmpeg", "fullFfmpeg"}

\* A session exists from the resolution of puppeteer.launch until close() has
\* completed.
SessionOpen(b) == browserState[b] \in {"open", "closing"}

\* A page operation can succeed only on a browser nobody has started to close.
PageUsable == browserInstance # Null /\ browserState[browserInstance] = "open"

(***************************************************************************)
(* Fragments of control flow shared by several awaits.  Each fixes the     *)
(* primed value of the variables named beside it; the action using it      *)
(* leaves the rest unchanged.                                              *)
(***************************************************************************)

\* browser.close() is called: the browser starts to close (a second call on a
\* browser that is closing or closed changes nothing).        <<browserState>>
StartClose(b) ==
    browserState' = [browserState EXCEPT ![b] = IF @ = "open" THEN "closing" ELSE @]

\* Deno.exit(code).                                     <<exited, exitCode>>
ProcessExit(code) ==
    /\ exited' = TRUE
    /\ exitCode' = code

\* main's catch block, main.ts:1481-1491.
\*                                  <<mainPc, browserState, exited, exitCode>>
MainCatch ==
    IF browserInstance # Null
    THEN /\ StartClose(browserInstance)
         /\ mainPc' = "mainCatchClose"
         /\ UNCHANGED <<exited, exitCode>>
    ELSE /\ ProcessExit(ExitFailure)
         /\ mainPc' = "exited"
         /\ UNCHANGED browserState

\* tryFastVideoDownload returns `ok` and main goes on, main.ts:1468-1480: on
\* false it enters downloadXVideo, which runs to its first await (ensureDir).
\*                                           <<mainPc, fastResult, fullRuns>>
FastReturns(ok) ==
    /\ fastResult' = IF ok THEN "true" ELSE "false"
    /\ mainPc' = IF ok THEN "mainReturned" ELSE "fullEnsureDir"
    /\ fullRuns' = IF ok THEN fullRuns ELSE fullRuns + 1

\* The catch block of tryFastVideoDownload, main.ts:570-581.
\*                             <<mainPc, browserState, fastResult, fullRuns>>
FastCatchNoClose ==
    /\ FastReturns(FALSE)
    /\ UNCHANGED browserState

FastCatch ==
    IF browserInstance # Null
    THEN /\ StartClose(browserInstance)
         /\ mainPc' = "fastCatchClose"
         /\ UNCHANGED <<fastResult, fullRuns>>
    ELSE /\ FastReturns(FALSE)
         /\ UNCHANGED browserState

\* downloadXVideo completes with `outcome` ("returned" | "threw") once its
\* finally block is done; a throw lands in main's catch, main.ts:1350-1359 and
\* 1477-1491.       <<mainPc, browserState, fullResult, exited, exitCode>>
FullCompletes(outcome) ==
    /\ fullResult' = outcome
    /\ IF outcome = "threw"
       THEN MainCatch
       ELSE /\ mainPc' = "mainReturned"
            /\ UNCHANGED <<browserState, exited, exitCode>>

\* The finally block of downloadXVideo, entered with `outcome` pending.
\*     <<mainPc, browserState, fullResult, fullOutcome, exited, exitCode>>
FullFinallyNoClose(outcome) ==
    /\ FullCompletes(outcome)
    /\ fullOutcome' = outcome

FullFinally(outcome) ==
    IF browserInstance # Null
    THEN /\ StartClose(browserInstance)
         /\ mainPc' = "fullFinallyClose"
         /\ fullOutcome' = outcome
         /\ UNCHANGED <<fullResult, exited, exitCode>>
    ELSE /\ FullCompletes(outcome)
         /\ fullOutcome' = outcome

\* new Deno.Command("ffmpeg").spawn() in executeFFmpeg, main.ts:733-740: the
\* subprocess runs and the slot references it.   <<ffmpegProcess, ffmpegState>>
SpawnFFmpeg(p) ==
    /\ ffmpegState' = [ffmpegState EXCEPT ![p] = "running"]
    /\ ffmpegProcess' = p

\* The most chunks a response body is delivered in.
MaxChunks == 2

\* The progress indicators: the one of downloadFile (main.ts:586) and the one
\* of each executeFFmpeg call (main.ts:728).
Indicators == {"fastDownload"} \cup Subprocesses

\* progress.start(title), main.ts:9-11.                          <<progress>>
StartProgress(ind) == progress' = [progress EXCEPT ![ind] = "started"]

\* progress.finish(message), main.ts:32-36.                      <<progress>>
FinishProgress(ind) == progress' = [progress EXCEPT ![ind] = "finished"]

\* progress.update(ratio, speed, eta), main.ts:12-31: the bar is drawn again,
\* whether or not finish was called before.                      <<progress>>
UpdateProgress(ind) ==
    progress' = [progress EXCEPT
                   ![ind] = IF @ = "finished" THEN "updatedAfterFinish" ELSE @]

\* executeFFmpeg's result for an exit of the subprocess, main.ts:835-844.
ExitResultAlwaysTrue(state) == "true"  \* variant: the exit code is not looked at

ExitResult(state) == IF state = "exitedOk" THEN "true" ELSE "false"

\* executeFFmpeg up to await process.status, main.ts:729-829: the indicator is
\* started, the subprocess runs and the slot references it.
\*                     <<progress, ffmpegProcess, ffmpegState, ffmpegResult>>
ExecuteFFmpegSpawns(p) ==
    /\ StartProgress(p)
    /\ SpawnFFmpeg(p)
    /\ UNCHANGED ffmpegResult

\* executeFFmpeg when spawn() throws, main.ts:729-739 and 845-850: the catch
\* block finalizes the indicator and returns false; the slot was never
\* assigned.           <<progress, ffmpegProcess, ffmpegState, ffmpegResult>>
ExecuteFFmpegSpawnFails(p) ==
    /\ FinishProgress(p)
    /\ ffmpegResult' = [ffmpegResult EXCEPT ![p] = "false"]
    /\ UNCHANGED <<ffmpegProcess, ffmpegState>>

\* executeFFmpeg after await process.status, main.ts:829-844: the slot is
\* cleared, the indicator finalized, the result follows the exit code.
\*                                   <<progress, ffmpegProcess, ffmpegResult>>
ExecuteFFmpegReturnsUnfinished(p) ==   \* variant: a failure leaves the indicator
    /\ ffmpegProcess' = Null
    /\ ffmpegResult' = [ffmpegResult EXCEPT ![p] = ExitResult(ffmpegState[p])]
    /\ IF ffmpegState[p] = "exitedOk" THEN FinishProgress(p)
                                      ELSE UNCHANGED progress

ExecuteFFmpegReturns(p) ==
    /\ ffmpegProcess' = Null
    /\ ffmpegResult' = [ffmpegResult EXCEPT ![p] = ExitResult(ffmpegState[p])]
    /\ FinishProgress(p)

\* The locals of downloadFile, main.ts:585-719, before it is called.
\*   pc             "idle" | "head" | "get" | "open" | "read" | "write"
\*                  | "returned" | "threw"
\*   head           how the HEAD request settled: "none" | "throws" | "notOk" | "ok"
\*   get            how the GET settled: "none" | "rejects" | "notOk"
\*                  | "okNoBody" | "okBody"
\*   getLength      the content-length of the GET response (0: none)
\*   totalBytes, bytesReceived   as in the code
\*   chunksWritten  completed file.write calls
\*   fileOpen       the output file is open
\*   updates        the modes of the progress.update calls made so far
\*   ended          reader.read() reported done
\*   reported       the byte count named in the success message (-1: none)
\*   received       the lengths of the chunks reader.read() gave, in order
\*   file           what the file holds: per completed file.write call, the
\*                  chunk it was given and the bytes of it that were written
\*   written        the bytes the file holds
\*   now            the last Date.now() of the loop, in ms since startTime
\*   lastSpeedUpdate, lastBytesForSpeed   as in the code, ms since startTime
\*   currentSpeed   the operands of the displayed speed: bytes over ms
\*                  (0 over 0 is the initial "0 B/s")
\*   eta            the displayed remaining time in whole seconds
\*                  (-1: "calculating...")
\*   ratio          the ratio of the last progress.update call, as a fraction
\*   destination    the file at outputPath: "untouched" (as before the call)
\*                  | "truncated" (created, or emptied, by Deno.open)
\* The locals of the loop (652-656, 683) are back at their initial values once
\* the function has returned or thrown.
InitialDownload ==
    [pc |-> "idle", head |-> "none", get |-> "none", getLength |-> 0,
     totalBytes |-> 0, bytesReceived |-> 0, chunksWritten |-> 0,
     fileOpen |-> FALSE, updates |-> {}, ended |-> FALSE, reported |-> -1,
     received |-> <<>>, file |-> <<>>, written |-> 0,
     now |-> 0, lastSpeedUpdate |-> 0, lastBytesForSpeed |-> 0,
     currentSpeed |-> [bytes |-> 0, ms |-> 0], eta |-> -1,
     ratio |-> [num |-> 0, den |-> 1], destination |-> "untouched"]

\* What downloadXVideo's discovery did, main.ts:1019-1261.
\*   picked     what selection over the registry gave: "pending" | "none"
\*              | "m3u8" | "mp4"
\*   ogProbe    the og:video probe: "notRun" | "running" | "found" | "nothing"
\*   raisedAt   the await whose rejection left the try block ("none": none)
InitialTrace == [picked |-> "pending", ogProbe |-> "notRun", raisedAt |-> "none"]

(***************************************************************************)
(* Init: the module has been loaded, the SIGINT listener is registered,    *)
(* both slots are empty and main is about to run.                          *)
(***************************************************************************)
CtlInit ==
    /\ mainPc = "main"
    /\ fastEnabled \in BOOLEAN
    /\ urlValid \in BOOLEAN
    /\ browserInstance = Null
    /\ browserState = [b \in Browsers |-> "none"]
    /\ ffmpegProcess = Null
    /\ ffmpegState = [p \in Subprocesses |-> "none"]
    /\ termSent = {}
    /\ sigPc = "idle"
    /\ sigBrowser = Null
    /\ exited = FALSE
    /\ exitCode = 0
    /\ fastRuns = 0
    /\ fullRuns = 0
    /\ fastResult = "none"
    /\ fullResult = "none"
    /\ fullOutcome = "none"
    /\ progress = [ind \in Indicators |-> "none"]
    /\ ffmpegResult = [p \in Subprocesses |-> "none"]
    /\ download = InitialDownload
    /\ fullTrace = InitialTrace

\* What a control action leaves alone besides the control variables it names.
CtlFrame == UNCHANGED <<selVars, errVars>>

\* An action outside downloadFile, executeFFmpeg and the discovery of
\* downloadXVideo leaves their variables alone.
OpsFrame == UNCHANGED <<progress, ffmpegResult, download, fullTrace>>

\* No executeFFmpeg is reading.
ErrIdle ==
    /\ diagnostics = <<>>
    /\ delivered = 0
    /\ readerDone = FALSE
    /\ duration = 0
    /\ currentTime = 0
    /\ speed = <<"0", "x">>
    /\ progressRatio = 0

(***************************************************************************)
(* main, main.ts:1435-1492, up to the first await of the strategy it calls. *)
(***************************************************************************)
MainStart ==
    /\ ~exited /\ mainPc = "main"
    /\ IF ~urlValid
       THEN /\ ProcessExit(ExitFailure)
            /\ mainPc' = "exited"
            /\ UNCHANGED <<fastRuns, fullRuns, fastResult>>
       ELSE IF ~fastEnabled
       THEN \* tryFastVideoDownload returns false at once, main.ts:237-240
            /\ FastReturns(FALSE)
            /\ UNCHANGED <<fastRuns, exited, exitCode>>
       ELSE /\ mainPc' = "fastLaunch"
            /\ fastRuns' = fastRuns + 1
            /\ UNCHANGED <<fullRuns, fastResult, exited, exitCode>>
    /\ UNCHANGED <<fastEnabled, urlValid, browserInstance, browserState,
                   ffmpegProcess, ffmpegState, termSent, sigPc, sigBrowser,
                   fullResult, fullOutcome>>
    /\ CtlFrame
    /\ OpsFrame

(***************************************************************************)
(* tryFastVideoDownload, main.ts:232-582.                                  *)
(***************************************************************************)

\* await puppeteer.launch resolves, main.ts:257-269.
FastLaunchOk ==
    /\ ~exited /\ mainPc = "fastLaunch"
    /\ browserState' = [browserState EXCEPT !["fastBrowser"] = "open"]
    /\ browserInstance' = "fastBrowser"
    /\ mainPc' = "fastSetup"
    /\ UNCHANGED <<fastEnabled, urlValid, ffmpegProcess, ffmpegState, termSent,
                   sigPc, sigBrowser, exited, exitCode, fastRuns, fullRuns,
                   fastResult, fullResult, fullOutcome>>
    /\ CtlFrame
    /\ OpsFrame

\* await puppeteer.launch rejects: the call is outside the try block
\* (main.ts:257 against 271), so the error leaves tryFastVideoDownload and
\* lands in main's catch.
FastLaunchRaises ==
    /\ ~exited /\ mainPc = "fastLaunch"
    /\ fastResult' = "threw"
    /\ MainCatch
    /\ UNCHANGED <<fastEnabled, urlValid, browserInstance, ffmpegProcess,
                   ffmpegState, termSent, sigPc, sigBrowser, fastRuns, fullRuns,
                   fullResult, fullOutcome>>
    /\ CtlFrame
    /\ OpsFrame

\* One of the page awaits of the try block resolves and the flow reaches the
\* next: newPage .. setRequestInterception (272-301), goto (373), the 8 s wait
\* (381, a timer: it does not need the page).
FastStepOk ==
    /\ ~exited
    /\ \/ mainPc = "fastSetup" /\ PageUsable /\ mainPc' = "fastGoto"
       \/ mainPc = "fastGoto" /\ PageUsable /\ mainPc' = "fastWait"
       \/ mainPc = "fastWait" /\ mainPc' = "fastEvaluate"
    /\ UNCHANGED <<fastEnabled, urlValid, browserInstance, browserState,
                   ffmpegProcess, ffmpegState, termSent, sigPc, sigBrowser,
                   exited, exitCode, fastRuns, fullRuns, fastResult, fullResult,
                   fullOutcome>>
    /\ CtlFrame
    /\ OpsFrame

\* page.evaluate (384) resolves; browser.close() is called (408).
FastEvaluateOk ==
    /\ ~exited /\ mainPc = "fastEvaluate" /\ PageUsable
    /\ StartClose(browserInstance)
    /\ mainPc' = "fastClose"
    /\ UNCHANGED <<fastEnabled, urlValid, browserInstance, ffmpegProcess,
                   ffmpegState, termSent, sigPc, sigBrowser, exited, exitCode,
                   fastRuns, fullRuns, fastResult, fullResult, fullOutcome>>
    /\ CtlFrame
    /\ OpsFrame

\* A page await of the try block rejects (a timeout, a protocol error, the
\* browser gone): the catch block runs.
FastStepRaises ==
    /\ ~exited /\ mainPc \in {"fastSetup", "fastGoto", "fastEvaluate"}
    /\ FastCatch
    /\ UNCHANGED <<fastEnabled, urlValid, browserInstance, ffmpegProcess,
                   ffmpegState, termSent, sigPc, sigBrowser, exited, exitCode,
                   fastRuns, fullResult, fullOutcome>>
    /\ CtlFrame
    /\ OpsFrame

\* await browser.close(), 408: the flow goes on when the close has completed.
CloseNotAwaited(b) == TRUE   \* variant: close() is called and not awaited

CloseResolved(b) == browserState[b] = "closed"

\* await browser.close() (408) resolves: the slot is cleared (409) and the
\* selection (418-512) yields no URL, a manifest or a direct file.
FastCloseResolved ==
    /\ ~exited /\ mainPc = "fastClose"
    /\ CloseResolved(browserInstance)
    /\ browserInstance' = Null
    /\ \E kind \in {"none", "m3u8", "m3u8SpawnFails", "mp4"} :
         CASE kind = "none" ->
                \* return false, main.ts:507-512
                /\ FastReturns(FALSE)
                /\ UNCHANGED <<ffmpegProcess, ffmpegState, progress,
                               ffmpegResult, download>>
           [] kind = "m3u8" ->
                /\ ExecuteFFmpegSpawns("fastFfmpeg")
                /\ mainPc' = "fastFfmpeg"
                /\ UNCHANGED <<fastResult, fullRuns, download>>
           [] kind = "m3u8SpawnFails" ->
                \* executeFFmpeg catches and returns false (845-850); line 560
                \* throws; the catch block finds the slot empty
                /\ ExecuteFFmpegSpawnFails("fastFfmpeg")
                /\ FastReturns(FALSE)
                /\ UNCHANGED download
           [] kind = "mp4" ->
                \* downloadFile is called (567): the indicator is started and
                \* the HEAD request is sent (587-596)
                /\ mainPc' = "fastDownload"
                /\ StartProgress("fastDownload")
                /\ download' = [InitialDownload EXCEPT !.pc = "head"]
                /\ UNCHANGED <<fastResult, fullRuns, ffmpegProcess, ffmpegState,
                               ffmpegResult>>
    /\ UNCHANGED <<fastEnabled, urlValid, browserState, termSent, sigPc,
                   sigBrowser, exited, exitCode, fastRuns, fullResult,
                   fullOutcome, fullTrace>>
    /\ CtlFrame

\* await process.status resolves in executeFFmpeg (829-844) called at 557.
FastFfmpegDone ==
    /\ ~exited /\ mainPc = "fastFfmpeg"
    /\ ffmpegState["fastFfmpeg"] \in {"exitedOk", "exitedErr"}
    /\ ExecuteFFmpegReturns("fastFfmpeg")
    /\ IF ffmpegResult'["fastFfmpeg"] = "true"
       THEN /\ FastReturns(TRUE)
            /\ UNCHANGED browserState
       ELSE \* if (!ffmpegSuccess) throw, 559-561
            FastCatch
    /\ UNCHANGED <<fastEnabled, urlValid, browserInstance, ffmpegState,
                   termSent, sigPc, sigBrowser, exited, exitCode, fastRuns,
                   fullResult, fullOutcome, download, fullTrace>>
    /\ CtlFrame

(***************************************************************************)
(* downloadFile, main.ts:585-719, one action per await.                    *)
(***************************************************************************)

\* The catch block of downloadFile, 713-718, after the finally block (710-712)
\* closed the file if it was open: the indicator is finalized with the error
\* and the error is thrown again.                       <<download, progress>>
DownloadThrows(d) ==
    /\ download' = [d EXCEPT
           !.pc = "threw", !.fileOpen = FALSE,
           !.now = 0, !.lastSpeedUpdate = 0, !.lastBytesForSpeed = 0,
           !.currentSpeed = InitialDownload.currentSpeed, !.eta = -1]
    /\ FinishProgress("fastDownload")

\* The GET request gave nothing to read from: fetch rejected (616), or
\* if (!response.ok) throw, 625-629.
ResponseAccepted(get) == FALSE   \* variant: the status is not looked at

ResponseFails(get) == get \in {"rejects", "notOk"}

\* if (!response.body) throw, 647-649.
BodyMissing(get) == get = "okNoBody"

\* totalBytes after the GET response, 632-637: the content-length of the GET
\* response is taken when the HEAD request gave none.
TotalIgnoringGet(total, getLength) == total   \* variant: no fallback

TotalAfterGet(total, getLength) ==
    IF total = 0 THEN getLength ELSE total

\* calculateSpeed, 77-82, as the operands of the quotient it formats: the
\* bytes of the slice over its milliseconds ("0 B/s" when no time elapsed).
calculateSpeed(bytesDownloaded, elapsedMs) ==
    IF elapsedMs = 0
    THEN [bytes |-> 0, ms |-> 0]
    ELSE [bytes |-> bytesDownloaded, ms |-> elapsedMs]

\* if (now - lastSpeedUpdate > 500), 674: a new speed sample is due.
SampleDueAlways(now, lastSpeedUpdate) == TRUE   \* variant: at every chunk

SampleDue(now, lastSpeedUpdate) == now - lastSpeedUpdate > 500

\* The remaining time shown after a chunk, 683-692, in whole seconds as
\* formatTime floors it (-1: "calculating..."): remainingBytes over
\* bytesReceived / elapsedSeconds, the average since startTime.
Eta(totalBytes, bytesReceived, elapsedMs) ==
    IF totalBytes > 0 /\ bytesReceived > 0 /\ elapsedMs > 1000
    THEN ((totalBytes - bytesReceived) * elapsedMs) \div (bytesReceived * 1000)
    ELSE -1

\* createProgressBar(width = 40), 7.
width == 40

\* The two parts of the bar update draws, 13-17: "\u2588".repeat(completed) and
\* "\u2591".repeat(remaining); String.prototype.repeat throws a RangeError on
\* a negative count.
BarParts(ratio) ==
    [completed |-> (width * ratio.num) \div ratio.den,
     remaining |-> width - (width * ratio.num) \div ratio.den]

\* The ratio of the progress.update call after a chunk, 694-705:
\* bytesReceived / totalBytes, or the fixed 0.5 when the total is unknown.
UpdateRatio(totalBytes, bytesReceived) ==
    IF totalBytes > 0
    THEN [num |-> bytesReceived, den |-> totalBytes]
    ELSE [num |-> 1, den |-> 2]

\* The mode of the progress.update call after a chunk, 694-705: a percentage
\* of totalBytes, or the fixed 0.5 with the bytes received so far.
UpdateMode(total) == IF total > 0 THEN "percent" ELSE "indeterminate"

\* await fetch(url, {method: "HEAD"}) settles, 592-613: a success takes the
\* content-length if there is one, a failure or a rejection is logged and
\* the flow continues; the GET request is sent (616).
DlHeadSettled ==
    /\ ~exited /\ mainPc = "fastDownload" /\ download.pc = "head"
    /\ \E outcome \in {"throws", "notOk", "ok"}, length \in {0, MaxChunks + 1} :
         download' = [download EXCEPT
                        !.pc = "get", !.head = outcome,
                        !.totalBytes = IF outcome = "ok" THEN length ELSE 0]
    /\ UNCHANGED <<mainPc, fastEnabled, urlValid, browserInstance, browserState,
                   ffmpegProcess, ffmpegState, termSent, sigPc, sigBrowser,
                   exited, exitCode, fastRuns, fullRuns, fastResult, fullResult,
                   fullOutcome, progress, ffmpegResult, fullTrace>>
    /\ CtlFrame

\* await fetch(url) settles, 616-644: a rejection or a status that is not
\* successful throws; otherwise totalBytes is settled and Deno.open is called.
DlGetSettled ==
    /\ ~exited /\ mainPc = "fastDownload" /\ download.pc = "get"
    /\ \E outcome \in {"rejects", "notOk", "okNoBody", "okBody"},
          length \in {0, MaxChunks + 1} :
         IF ResponseFails(outcome)
         THEN DownloadThrows([download EXCEPT !.get = outcome])
         ELSE /\ download' = [download EXCEPT
                    !.pc = "open", !.get = outcome, !.getLength = length,
                    !.totalBytes = TotalAfterGet(download.totalBytes, length)]
              /\ UNCHANGED progress
    /\ UNCHANGED <<mainPc, fastEnabled, urlValid, browserInstance, browserState,
                   ffmpegProcess, ffmpegState, termSent, sigPc, sigBrowser,
                   exited, exitCode, fastRuns, fullRuns, fastResult, fullResult,
                   fullOutcome, ffmpegResult, fullTrace>>
    /\ CtlFrame

\* await Deno.open settles, 640-656: a rejection throws; otherwise the file
\* was created or truncated (write, create, truncate); with the file open, a
\* response without a body throws and the finally block closes the file;
\* otherwise the first reader.read() is called.
DlOpenSettled ==
    /\ ~exited /\ mainPc = "fastDownload" /\ download.pc = "open"
    /\ \E opened \in BOOLEAN :
         IF ~opened
         THEN DownloadThrows(download)
         ELSE IF BodyMissing(download.get)
         THEN DownloadThrows([download EXCEPT !.destination = "truncated"])
         ELSE /\ download' = [download EXCEPT
                    !.pc = "read", !.fileOpen = TRUE,
                    !.destination = "truncated"]
              /\ UNCHANGED progress
    /\ UNCHANGED <<mainPc, fastEnabled, urlValid, browserInstance, browserState,
                   ffmpegProcess, ffmpegState, termSent, sigPc, sigBrowser,
                   exited, exitCode, fastRuns, fullRuns, fastResult, fullResult,
                   fullOutcome, ffmpegResult, fullTrace>>
    /\ CtlFrame

\* await reader.read() settles, 658-666 and 707-712: a chunk is handed to
\* file.write; the end of the body finalizes the indicator with the bytes
\* received, closes the file and returns; a rejection (or a response that
\* has no body to read) throws.  A body has at most MaxChunks chunks, of one
\* or two bytes each, and as many bytes as the GET response declared, if it
\* declared a length.
DlReadSettled ==
    /\ ~exited /\ mainPc = "fastDownload" /\ download.pc = "read"
    /\ \E outcome \in {"chunk", "done", "error"}, length \in {1, 2} :
         CASE outcome = "chunk" ->
                /\ download.get = "okBody"
                /\ Len(download.received) < MaxChunks
                /\ download.getLength > 0 =>
                       download.bytesReceived + length <= download.getLength
                /\ download' = [download EXCEPT
                       !.pc = "write", !.received = Append(@, length)]
                /\ UNCHANGED progress
           [] outcome = "done" ->
                /\ download.get = "okBody"
                /\ download.getLength > 0 =>
                       download.bytesReceived = download.getLength
                /\ download' = [download EXCEPT
                       !.pc = "returned", !.ended = TRUE, !.fileOpen = FALSE,
                       !.reported = download.bytesReceived,
                       !.now = 0, !.lastSpeedUpdate = 0,
                       !.lastBytesForSpeed = 0,
                       !.currentSpeed = InitialDownload.currentSpeed,
                       !.eta = -1]
                /\ FinishProgress("fastDownload")
           [] outcome = "error" ->
                DownloadThrows(download)
    /\ UNCHANGED <<mainPc, fastEnabled, urlValid, browserInstance, browserState,
                   ffmpegProcess, ffmpegState, termSent, sigPc, sigBrowser,
                   exited, exitCode, fastRuns, fullRuns, fastResult, fullResult,
                   fullOutcome, ffmpegResult, fullTrace>>
    /\ CtlFrame

\* progress.update returns, or throws into the catch block of downloadFile
\* when the bar cannot be drawn.                       <<download, progress>>
Updated(d) ==
    IF BarParts(d.ratio).completed < 0 \/ BarParts(d.ratio).remaining < 0
    THEN DownloadThrows(d)
    ELSE download' = d /\ UNCHANGED progress

\* await file.write(value) settles, 666-705.  A rejection throws.  Otherwise
\* the call resolves to the number of bytes it wrote, which the code does not
\* look at: FsFile.write may write the whole chunk or only a part of it (here
\* its first byte).  value.length is added to bytesReceived (669), the time is
\* read (670), ms milliseconds after the previous reading, the speed is
\* sampled if a sample is due (674-681), the remaining time computed
\* (683-692), the indicator updated (694-705) and the next reader.read()
\* called, unless the update throws.
DlWriteSettled ==
    /\ ~exited /\ mainPc = "fastDownload" /\ download.pc = "write"
    /\ \E outcome \in {"full", "short", "rejects"}, ms \in {500, 501, 1500} :
         LET k     == Len(download.received)
             value == download.received[k]
             put   == IF outcome = "full" THEN value ELSE 1
             now   == download.now + ms
             bytes == download.bytesReceived + value
             due   == SampleDue(now, download.lastSpeedUpdate)
         IN  IF outcome = "rejects"
             THEN DownloadThrows(download)
             ELSE /\ outcome = "short" => value > 1
                  /\ Updated([download EXCEPT
                        !.pc = "read",
                        !.chunksWritten = @ + 1,
                        !.file = Append(@, [chunk |-> k, bytes |-> put]),
                        !.written = @ + put,
                        !.bytesReceived = bytes,
                        !.now = now,
                        !.currentSpeed =
                            IF due
                            THEN calculateSpeed(
                                     bytes - download.lastBytesForSpeed,
                                     now - download.lastSpeedUpdate)
                            ELSE @,
                        !.lastSpeedUpdate = IF due THEN now ELSE @,
                        !.lastBytesForSpeed = IF due THEN bytes ELSE @,
                        !.eta = Eta(download.totalBytes, bytes, now),
                        !.ratio = UpdateRatio(download.totalBytes, bytes),
                        !.updates = @ \cup {UpdateMode(download.totalBytes)}])
    /\ UNCHANGED <<mainPc, fastEnabled, urlValid, browserInstance, browserState,
                   ffmpegProcess, ffmpegState, termSent, sigPc, sigBrowser,
                   exited, exitCode, fastRuns, fullRuns, fastResult, fullResult,
                   fullOutcome, ffmpegResult, fullTrace>>
    /\ CtlFrame

\* await downloadFile (567) resolves or rejects.
FastDownloadDone ==
    /\ ~exited /\ mainPc = "fastDownload"
    /\ download.pc \in {"returned", "threw"}
    /\ IF download.pc = "returned"
       THEN FastReturns(TRUE) /\ UNCHANGED browserState
       ELSE FastCatch
    /\ UNCHANGED <<fastEnabled, urlValid, browserInstance, ffmpegProcess,
                   ffmpegState, termSent, sigPc, sigBrowser, exited, exitCode,
                   fastRuns, fullResult, fullOutcome>>
    /\ CtlFrame
    /\ OpsFrame

\* await browserInstance.close() resolves in a catch block: the one of
\* tryFastVideoDownload (576-580), or the one of main (1486-1490).
CatchCloseResolved ==
    /\ ~exited /\ mainPc \in {"fastCatchClose", "mainCatchClose"}
    /\ browserState[browserInstance] = "closed"
    /\ browserInstance' = Null
    /\ IF mainPc = "fastCatchClose"
       THEN /\ FastReturns(FALSE)
            /\ UNCHANGED <<exited, exitCode>>
       ELSE /\ ProcessExit(ExitFailure)
            /\ mainPc' = "exited"
            /\ UNCHANGED <<fastResult, fullRuns>>
    /\ UNCHANGED <<fastEnabled, urlValid, browserState, ffmpegProcess,
                   ffmpegState, termSent, sigPc, sigBrowser, fastRuns,
                   fullResult, fullOutcome>>
    /\ CtlFrame
    /\ OpsFrame

(***************************************************************************)
(* downloadXVideo, main.ts:854-1360.                                       *)
(***************************************************************************)

\* The ensureDir awaits (880-881) resolve; puppeteer.launch is called (897).
FullEnsureDirOk ==
    /\ ~exited /\ mainPc = "fullEnsureDir"
    /\ mainPc' = "fullLaunch"
    /\ UNCHANGED <<fastEnabled, urlValid, browserInstance, browserState,
                   ffmpegProcess, ffmpegState, termSent, sigPc, sigBrowser,
                   exited, exitCode, fastRuns, fullRuns, fastResult, fullResult,
                   fullOutcome>>
    /\ CtlFrame
    /\ OpsFrame

\* browserInstance = await puppeteer.launch(...) resolves, main.ts:897-906.
FullLaunchOk ==
    /\ ~exited /\ mainPc = "fullLaunch"
    /\ browserState' = [browserState EXCEPT !["fullBrowser"] = "open"]
    /\ browserInstance' = "fullBrowser"
    /\ mainPc' = "fullSetup"
    /\ UNCHANGED <<fastEnabled, urlValid, ffmpegProcess, ffmpegState, termSent,
                   sigPc, sigBrowser, exited, exitCode, fastRuns, fullRuns,
                   fastResult, fullResult, fullOutcome>>
    /\ CtlFrame
    /\ OpsFrame

\* puppeteer.launch rejects: the call is before the try block (897 against
\* 908), the slot is not assigned and the error lands in main's catch.
FullLaunchRaises ==
    /\ ~exited /\ mainPc = "fullLaunch"
    /\ FullCompletes("threw")
    /\ UNCHANGED <<fastEnabled, urlValid, browserInstance, ffmpegProcess,
                   ffmpegState, termSent, sigPc, sigBrowser, fastRuns, fullRuns,
                   fastResult, fullOutcome>>
    /\ CtlFrame
    /\ OpsFrame

\* An await of the try block resolves and the flow reaches the next one.
\*   fullSetup      newPage .. setRequestInterception            909-938
\*   fullGoto       page.goto                                    1002
\*   fullSelector   the selector loop; its errors are caught      1020-1045
\*   fullDomScrape  page.evaluate, run only when no selector matched 1047-1074
\*   fullNetworkWait  the settle timer                           1080
\*   fullNudge      two clicks, each in a try of its own          1083-1103
\*   fullResources  page.evaluate of the resource timings         1114
FullStepOk ==
    /\ ~exited
    /\ \/ mainPc = "fullSetup" /\ PageUsable /\ mainPc' = "fullGoto"
       \/ mainPc = "fullGoto" /\ PageUsable /\ mainPc' = "fullSelector"
       \/ /\ mainPc = "fullSelector"
          /\ \E videoFound \in BOOLEAN :
               /\ videoFound => PageUsable
               /\ mainPc' = IF videoFound THEN "fullNetworkWait" ELSE "fullDomScrape"
       \/ mainPc = "fullDomScrape" /\ PageUsable /\ mainPc' = "fullNetworkWait"
       \/ /\ mainPc = "fullNetworkWait"
          /\ \E registryEmpty \in BOOLEAN :
               mainPc' = IF registryEmpty THEN "fullNudge" ELSE "fullResources"
       \/ mainPc = "fullNudge" /\ mainPc' = "fullResources"
    /\ UNCHANGED <<fastEnabled, urlValid, browserInstance, browserState,
                   ffmpegProcess, ffmpegState, termSent, sigPc, sigBrowser,
                   exited, exitCode, fastRuns, fullRuns, fastResult, fullResult,
                   fullOutcome>>
    /\ CtlFrame
    /\ OpsFrame

\* An await of the try block rejects outside every inner try: the catch block
\* rethrows (1350-1353) and the finally block runs.
FullStepRaises ==
    /\ ~exited
    /\ mainPc \in {"fullSetup", "fullGoto", "fullDomScrape", "fullResources",
                   "fullFetch", "fullVerify"}
    /\ FullFinally("threw")
    /\ fullTrace' = [fullTrace EXCEPT !.raisedAt = mainPc]
    /\ UNCHANGED <<fastEnabled, urlValid, browserInstance, ffmpegProcess,
                   ffmpegState, termSent, sigPc, sigBrowser, fastRuns, fullRuns,
                   fastResult, progress, ffmpegResult, download>>
    /\ CtlFrame

\* Dispatch on the selected URL, main.ts:1257-1340.  `kind` is what selection
\* or the og:video probe produced.
\*   <<mainPc, browserState, ffmpegProcess, ffmpegState, fullResult,
\*     fullOutcome, exited, exitCode, progress, ffmpegResult>>
FullDispatch(kind, spawnOk) ==
    CASE kind = "none" ->
           \* throw new Error("Could not find any video URLs"), 1257-1261
           /\ FullFinally("threw")
           /\ UNCHANGED <<ffmpegProcess, ffmpegState, progress, ffmpegResult>>
      [] kind = "m3u8" /\ spawnOk ->
           /\ ExecuteFFmpegSpawns("fullFfmpeg")
           /\ mainPc' = "fullFfmpeg"
           /\ UNCHANGED <<browserState, fullResult, fullOutcome, exited, exitCode>>
      [] kind = "m3u8" /\ ~spawnOk ->
           \* executeFFmpeg returns false (845-850); line 1311 throws
           /\ ExecuteFFmpegSpawnFails("fullFfmpeg")
           /\ FullFinally("threw")
      [] kind = "mp4" ->
           /\ mainPc' = "fullFetch"
           /\ UNCHANGED <<browserState, ffmpegProcess, ffmpegState, fullResult,
                          fullOutcome, exited, exitCode, progress, ffmpegResult>>

\* if (!videoUrl), main.ts:1233: the og:video probe is run when selection
\* over the registry produced no URL.
RunsOgProbeAlways(kind) == TRUE   \* variant: the probe does not look at videoUrl

RunsOgProbe(kind) == kind = "none"

\* page.evaluate of the resource timings (1114) resolves; selection over the
\* registry (1142-1231) runs; without a URL the og:video probe is started.
FullResourcesOk ==
    /\ ~exited /\ mainPc = "fullResources" /\ PageUsable
    /\ \E kind \in {"none", "m3u8", "mp4"}, spawnOk \in BOOLEAN :
         IF RunsOgProbe(kind)
         THEN /\ mainPc' = "fullOgProbe"
              /\ fullTrace' = [fullTrace EXCEPT !.picked = kind,
                                                !.ogProbe = "running"]
              /\ UNCHANGED <<browserState, ffmpegProcess, ffmpegState,
                             fullResult, fullOutcome, exited, exitCode,
                             progress, ffmpegResult>>
         ELSE /\ fullTrace' = [fullTrace EXCEPT !.picked = kind]
              /\ FullDispatch(kind, spawnOk)
    /\ UNCHANGED <<fastEnabled, urlValid, browserInstance, termSent, sigPc,
                   sigBrowser, fastRuns, fullRuns, fastResult, download>>
    /\ CtlFrame

\* The og:video probe (1233-1255) resolves with a URL or with nothing, or it
\* rejects and the error is caught; then dispatch.
FullOgProbeDone ==
    /\ ~exited /\ mainPc = "fullOgProbe"
    /\ \E kind \in {"none", "m3u8", "mp4"}, spawnOk \in BOOLEAN :
         /\ kind # "none" => PageUsable
         /\ fullTrace' = [fullTrace EXCEPT
                !.ogProbe = IF kind = "none" THEN "nothing" ELSE "found"]
         /\ FullDispatch(kind, spawnOk)
    /\ UNCHANGED <<fastEnabled, urlValid, browserInstance, termSent, sigPc,
                   sigBrowser, fastRuns, fullRuns, fastResult, download>>
    /\ CtlFrame

\* await process.status resolves in executeFFmpeg (829-844) called at 1308.
FullFfmpegDone ==
    /\ ~exited /\ mainPc = "fullFfmpeg"
    /\ ffmpegState["fullFfmpeg"] \in {"exitedOk", "exitedErr"}
    /\ ExecuteFFmpegReturns("fullFfmpeg")
    /\ IF ffmpegResult'["fullFfmpeg"] = "true"
       THEN /\ mainPc' = "fullVerify"
            /\ UNCHANGED <<browserState, fullResult, fullOutcome, exited, exitCode>>
       ELSE \* if (!ffmpegSuccess) throw, 1310-1312
            FullFinally("threw")
    /\ UNCHANGED <<fastEnabled, urlValid, browserInstance, ffmpegState,
                   termSent, sigPc, sigBrowser, fastRuns, fullRuns, fastResult,
                   download, fullTrace>>
    /\ CtlFrame

\* fetch, arrayBuffer and writeFile (1318-1339) resolve.
FullFetchOk ==
    /\ ~exited /\ mainPc = "fullFetch"
    /\ mainPc' = "fullVerify"
    /\ UNCHANGED <<fastEnabled, urlValid, browserInstance, browserState,
                   ffmpegProcess, ffmpegState, termSent, sigPc, sigBrowser,
                   exited, exitCode, fastRuns, fullRuns, fastResult, fullResult,
                   fullOutcome>>
    /\ CtlFrame
    /\ OpsFrame

\* Deno.stat (1344) resolves: the try block ends and the finally block runs.
FullVerifyOk ==
    /\ ~exited /\ mainPc = "fullVerify"
    /\ FullFinally("returned")
    /\ UNCHANGED <<fastEnabled, urlValid, browserInstance, ffmpegProcess,
                   ffmpegState, termSent, sigPc, sigBrowser, fastRuns, fullRuns,
                   fastResult>>
    /\ CtlFrame
    /\ OpsFrame

\* await browserInstance.close() resolves in the finally block (1355-1357).
FullFinallyCloseResolved ==
    /\ ~exited /\ mainPc = "fullFinallyClose"
    /\ browserState[browserInstance] = "closed"
    /\ browserInstance' = Null
    /\ fullResult' = fullOutcome
    /\ IF fullOutcome = "threw"
       THEN \* main's catch finds the slot empty and exits, 1481-1490
            /\ ProcessExit(ExitFailure)
            /\ mainPc' = "exited"
       ELSE /\ mainPc' = "mainReturned"
            /\ UNCHANGED <<exited, exitCode>>
    /\ UNCHANGED <<fastEnabled, urlValid, browserState, ffmpegProcess,
                   ffmpegState, termSent, sigPc, sigBrowser, fastRuns, fullRuns,
                   fastResult, fullOutcome>>
    /\ CtlFrame
    /\ OpsFrame

(***************************************************************************)
(* The environment: the browser and the subprocess.                        *)
(***************************************************************************)

\* A browser whose close() was called finishes closing.
BrowserCloseCompletes ==
    /\ ~exited
    /\ \E b \in Browsers :
         /\ browserState[b] = "closing"
         /\ browserState' = [browserState EXCEPT ![b] = "closed"]
    /\ UNCHANGED <<mainPc, fastEnabled, urlValid, browserInstance,
                   ffmpegProcess, ffmpegState, termSent, sigPc, sigBrowser,
                   exited, exitCode, fastRuns, fullRuns, fastResult, fullResult,
                   fullOutcome>>
    /\ CtlFrame
    /\ OpsFrame

\* The ffmpeg subprocess ends, with exit code 0 or with another.
FfmpegExits ==
    /\ ~exited
    /\ \E p \in Subprocesses, code \in {"exitedOk", "exitedErr"} :
         /\ ffmpegState[p] = "running"
         /\ ffmpegState' = [ffmpegState EXCEPT ![p] = code]
    /\ UNCHANGED <<mainPc, fastEnabled, urlValid, browserInstance, browserState,
                   ffmpegProcess, termSent, sigPc, sigBrowser, exited, exitCode,
                   fastRuns, fullRuns, fastResult, fullResult, fullOutcome>>
    /\ CtlFrame
    /\ OpsFrame

\* main has returned and no listener is in flight: the event loop is empty and
\* the process ends with status 0.
ProcessEnds ==
    /\ ~exited /\ mainPc = "mainReturned" /\ sigPc # "awaitClose"
    /\ ProcessExit(0)
    /\ mainPc' = "exited"
    /\ UNCHANGED <<fastEnabled, urlValid, browserInstance, browserState,
                   ffmpegProcess, ffmpegState, termSent, sigPc, sigBrowser,
                   fastRuns, fullRuns, fastResult, fullResult, fullOutcome>>
    /\ CtlFrame
    /\ OpsFrame

(***************************************************************************)
(* The SIGINT listener, main.ts:90-117.                                    *)
(***************************************************************************)

\* Lines 104-116: the subprocess in the slot, if any, is sent SIGTERM, and the
\* process exits with 130.                 <<termSent, exited, exitCode>>
SigintKillAndExit ==
    /\ termSent' = IF ffmpegProcess # Null THEN termSent \cup {ffmpegProcess}
                                           ELSE termSent
    /\ ProcessExit(ExitInterrupt)

\* SIGINT is delivered while the main flow is parked at an await: the listener
\* runs up to its await of browserInstance.close() (97), or to the end when
\* the slot is empty.
SigintReceived ==
    /\ ~exited /\ sigPc = "idle"
    /\ IF browserInstance # Null
       THEN /\ StartClose(browserInstance)
            /\ sigBrowser' = browserInstance
            /\ sigPc' = "awaitClose"
            /\ UNCHANGED <<termSent, exited, exitCode>>
       ELSE /\ SigintKillAndExit
            /\ sigPc' = "done"
            /\ UNCHANGED <<browserState, sigBrowser>>
    /\ UNCHANGED <<mainPc, fastEnabled, urlValid, browserInstance,
                   ffmpegProcess, ffmpegState, fastRuns, fullRuns, fastResult,
                   fullResult, fullOutcome>>
    /\ CtlFrame
    /\ OpsFrame

\* The listener's await of close() resolves; lines 104-116 run.
SigintCloseResolved ==
    /\ ~exited /\ sigPc = "awaitClose"
    /\ browserState[sigBrowser] = "closed"
    /\ SigintKillAndExit
    /\ sigPc' = "done"
    /\ UNCHANGED <<mainPc, fastEnabled, urlValid, browserInstance, browserState,
                   ffmpegProcess, ffmpegState, sigBrowser, fastRuns, fullRuns,
                   fastResult, fullResult, fullOutcome>>
    /\ CtlFrame
    /\ OpsFrame

CtlNext ==
    \/ DlHeadSettled
    \/ DlGetSettled
    \/ DlOpenSettled
    \/ DlReadSettled
    \/ DlWriteSettled
    \/ MainStart
    \/ FastLaunchOk
    \/ FastLaunchRaises
    \/ FastStepOk
    \/ FastEvaluateOk
    \/ FastStepRaises
    \/ FastCloseResolved
    \/ FastFfmpegDone
    \/ FastDownloadDone
    \/ CatchCloseResolved
    \/ FullEnsureDirOk
    \/ FullLaunchOk
    \/ FullLaunchRaises
    \/ FullStepOk
    \/ FullStepRaises
    \/ FullResourcesOk
    \/ FullOgProbeDone
    \/ FullFfmpegDone
    \/ FullFetchOk
    \/ FullVerifyOk
    \/ FullFinallyCloseResolved
    \/ BrowserCloseCompletes
    \/ FfmpegExits
    \/ ProcessEnds
    \/ SigintReceived
    \/ SigintCloseResolved

(***************************************************************************)
(* Strings.  URLs, content types and the literals the code searches for    *)
(* are TLA+ strings; Chars gives each its characters, and includes and     *)
(* endsWith are computed on the characters, as String.prototype.includes   *)
(* and endsWith compute them.                                              *)
(***************************************************************************)
Chars ==
    ("a-1280x720.mp4" :> <<"a", "-", "1", "2", "8", "0", "x", "7", "2", "0", ".", "m", "p", "4">>)
    @@ ("a-640x360.mp4" :> <<"a", "-", "6", "4", "0", "x", "3", "6", "0", ".", "m", "p", "4">>)
    @@ ("a-320x180.mp4" :> <<"a", "-", "3", "2", "0", "x", "1", "8", "0", ".", "m", "p", "4">>)
    @@ ("seg1.m4s" :> <<"s", "e", "g", "1", ".", "m", "4", "s">>)
    @@ ("seg2.m4s" :> <<"s", "e", "g", "2", ".", "m", "4", "s">>)
    @@ ("stream.m3u8?tag=9" :> <<"s", "t", "r", "e", "a", "m", ".", "m", "3", "u", "8", "?", "t", "a", "g", "=", "9">>)
    @@ ("video.m3u8" :> <<"v", "i", "d", "e", "o", ".", "m", "3", "u", "8">>)
    @@ ("audio.m3u8" :> <<"a", "u", "d", "i", "o", ".", "m", "3", "u", "8">>)
    @@ ("b.mp4?x-bit-rate=832" :> <<"b", ".", "m", "p", "4", "?", "x", "-", "b", "i", "t", "-", "r", "a", "t", "e", "=", "8", "3", "2">>)
    @@ ("video.twimg.com/c.mp4" :> <<"v", "i", "d", "e", "o", ".", "t", "w", "i", "m", "g", ".", "c", "o", "m", "/", "c", ".", "m", "p", "4">>)
    @@ ("amp.twimg.com/s.m3u8" :> <<"a", "m", "p", ".", "t", "w", "i", "m", "g", ".", "c", "o", "m", "/", "s", ".", "m", "3", "u", "8">>)
    @@ ("api.x.com/t" :> <<"a", "p", "i", ".", "x", ".", "c", "o", "m", "/", "t">>)
    @@ ("blob:x.com/1" :> <<"b", "l", "o", "b", ":", "x", ".", "c", "o", "m", "/", "1">>)
    @@ ("poster.jpg" :> <<"p", "o", "s", "t", "e", "r", ".", "j", "p", "g">>)
    @@ ("video/mp4" :> <<"v", "i", "d", "e", "o", "/", "m", "p", "4">>)
    @@ ("application/x-mpegURL" :> <<"a", "p", "p", "l", "i", "c", "a", "t", "i", "o", "n", "/", "x", "-", "m", "p", "e", "g", "U", "R", "L">>)
    @@ ("application/json" :> <<"a", "p", "p", "l", "i", "c", "a", "t", "i", "o", "n", "/", "j", "s", "o", "n">>)
    @@ ("" :> <<>>)
    @@ ("image/jpeg" :> <<"i", "m", "a", "g", "e", "/", "j", "p", "e", "g">>)
    @@ (".m3u8" :> <<".", "m", "3", "u", "8">>)
    @@ ("video" :> <<"v", "i", "d", "e", "o">>)
    @@ ("audio" :> <<"a", "u", "d", "i", "o">>)
    @@ (".mp4" :> <<".", "m", "p", "4">>)
    @@ ("api.twitter.com" :> <<"a", "p", "i", ".", "t", "w", "i", "t", "t", "e", "r", ".", "c", "o", "m">>)
    @@ ("api.x.com" :> <<"a", "p", "i", ".", "x", ".", "c", "o", "m">>)
    @@ ("video.twimg" :> <<"v", "i", "d", "e", "o", ".", "t", "w", "i", "m", "g">>)
    @@ ("ton/tweet/" :> <<"t", "o", "n", "/", "t", "w", "e", "e", "t", "/">>)
    @@ (".m4s" :> <<".", "m", "4", "s">>)
    @@ ("1280x720" :> <<"1", "2", "8", "0", "x", "7", "2", "0">>)
    @@ ("720p" :> <<"7", "2", "0", "p">>)
    @@ ("852x480" :> <<"8", "5", "2", "x", "4", "8", "0">>)
    @@ ("848x480" :> <<"8", "4", "8", "x", "4", "8", "0">>)
    @@ ("480p" :> <<"4", "8", "0", "p">>)
    @@ ("640x360" :> <<"6", "4", "0", "x", "3", "6", "0">>)
    @@ ("360p" :> <<"3", "6", "0", "p">>)
    @@ ("320x180" :> <<"3", "2", "0", "x", "1", "8", "0">>)
    @@ ("240p" :> <<"2", "4", "0", "p">>)
    @@ ("180p" :> <<"1", "8", "0", "p">>)
    @@ ("x-bit-rate=" :> <<"x", "-", "b", "i", "t", "-", "r", "a", "t", "e", "=">>)
    @@ ("video.twimg.com" :> <<"v", "i", "d", "e", "o", ".", "t", "w", "i", "m", "g", ".", "c", "o", "m">>)
    @@ ("amp.twimg.com" :> <<"a", "m", "p", ".", "t", "w", "i", "m", "g", ".", "c", "o", "m">>)
    @@ ("video/" :> <<"v", "i", "d", "e", "o", "/">>)

Texts == DOMAIN Chars

\* String.prototype.includes on character sequences.
SeqIncludes(s, p) ==
    \E i \in 0..(Len(s) - Len(p)) : SubSeq(s, i + 1, i + Len(p)) = p

\* String.prototype.endsWith on character sequences.
SeqEndsWith(s, p) ==
    /\ Len(p) <= Len(s)
    /\ SubSeq(s, Len(s) - Len(p) + 1, Len(s)) = p

\* The substrings (among Texts) of each text, computed once.
IncludesTable == [u \in Texts |-> {p \in Texts : SeqIncludes(Chars[u], Chars[p])}]
EndsWithTable == [u \in Texts |-> {p \in Texts : SeqEndsWith(Chars[u], Chars[p])}]

includes(u, p) == p \in IncludesTable[u]
endsWith(u, p) == p \in EndsWithTable[u]

Digits == {"0", "1", "2", "3", "4", "5", "6", "7", "8", "9"}

DigitValue(c) ==
    CASE c = "0" -> 0 [] c = "1" -> 1 [] c = "2" -> 2 [] c = "3" -> 3
      [] c = "4" -> 4 [] c = "5" -> 5 [] c = "6" -> 6 [] c = "7" -> 7
      [] c = "8" -> 8 [] c = "9" -> 9

\* parseInt(digits, 10) of the run of digits of s that starts at position j.
RECURSIVE ParseDigits(_, _, _)
ParseDigits(s, j, acc) ==
    IF j <= Len(s) /\ s[j] \in Digits
    THEN ParseDigits(s, j + 1, acc * 10 + DigitValue(s[j]))
    ELSE acc

\* url.match(/x-bit-rate=(\d+)/): the positions right after an "x-bit-rate="
\* that a digit follows; the match is the leftmost.
BitrateMatches(s) ==
    LET key == Chars["x-bit-rate="]
    IN {j \in 1..Len(s) : /\ j > Len(key)
                          /\ SubSeq(s, j - Len(key), j - 1) = key
                          /\ s[j] \in Digits}

Minimum(S) == CHOOSE x \in S : \A y \in S : x <= y

(***************************************************************************)
(* The Quality Ranker: main.ts:422-505 in tryFastVideoDownload and         *)
(* main.ts:1146-1231 in downloadXVideo.  Lines 423-483 and 1147-1207 are   *)
(* the same text (qualitySetting is named quality in the second copy), so  *)
(* getQualityScore, sort and TierIndex model both.                         *)
(***************************************************************************)

\* getQualityScore, main.ts:432-454 (and 1156-1178).
getQualityScore(url) ==
    IF includes(url, "1280x720") \/ includes(url, "720p") THEN 700
    ELSE IF includes(url, "852x480") \/ includes(url, "848x480")
            \/ includes(url, "480p") THEN 500
    ELSE IF includes(url, "640x360") \/ includes(url, "360p") THEN 300
    ELSE IF includes(url, "320x180") \/ includes(url, "240p")
            \/ includes(url, "180p") THEN 100
    ELSE IF BitrateMatches(Chars[url]) # {}
         THEN ParseDigits(Chars[url], Minimum(BitrateMatches(Chars[url])), 0)
    ELSE Len(Chars[url])

\* The score of each text, computed once.
QualityScore == [u \in Texts |-> getQualityScore(u)]

\* A comparator that sorts by ascending score (not the program's).
compareAscending(a, b) == QualityScore[a] - QualityScore[b]

\* The comparator of the sort, main.ts:457-459: negative puts a first.
compare(a, b) == QualityScore[b] - QualityScore[a]

\* Array.prototype.sort with that comparator: a stable sort, so u goes behind
\* every element the comparator does not put after it.
RECURSIVE InsertSorted(_, _)
InsertSorted(sorted, u) ==
    IF sorted = <<>> THEN <<u>>
    ELSE IF compare(Head(sorted), u) <= 0
         THEN <<Head(sorted)>> \o InsertSorted(Tail(sorted), u)
         ELSE <<u>> \o sorted

RECURSIVE sort(_)
sort(urls) ==
    IF urls = <<>> THEN <<>>
    ELSE InsertSorted(sort(SubSeq(urls, 1, Len(urls) - 1)), urls[Len(urls)])

IsFullMp4(url) == ~endsWith(url, ".m4s")

\* mp4Urls.filter((url) => !url.endsWith(".m4s")), main.ts:425-428.
fullMp4s(m) == SelectSeq(m.mp4Files, IsFullMp4)

\* sortedUrls, main.ts:457.
sortedUrls(m) == sort(fullMp4s(m))

Max2(a, b) == IF a >= b THEN a ELSE b
Min2(a, b) == IF a <= b THEN a ELSE b

\* An index rule whose 'low' takes the last URL (not the program's).
TierIndexLowOffByOne(qualitySetting_, n) ==
    IF qualitySetting_ = "lowest" /\ n > 0 THEN n - 1
    ELSE IF qualitySetting_ = "low" /\ n > 1 THEN n - 1
    ELSE IF qualitySetting_ = "medium" /\ n > 2 THEN n \div 2
    ELSE IF qualitySetting_ = "high" /\ n > 1 THEN Min2(1, n - 1)
    ELSE 0

\* The index (from 0) the tier selects in a list of n >= 1 sorted URLs,
\* main.ts:461-483 (and 1185-1207).
TierIndex(qualitySetting_, n) ==
    IF qualitySetting_ = "lowest" /\ n > 0 THEN n - 1
    ELSE IF qualitySetting_ = "low" /\ n > 1 THEN Max2(0, n - 2)
    ELSE IF qualitySetting_ = "medium" /\ n > 2 THEN n \div 2
    ELSE IF qualitySetting_ = "high" /\ n > 1 THEN Min2(1, n - 1)
    ELSE 0

\* Array.from(set)[0]: the element inserted first.
First(set) == set[1]

NoSelection == [videoUrl |-> "", audioUrl |-> ""]

\* Selection in tryFastVideoDownload, main.ts:418-505.
FastSelect(m, qualitySetting_) ==
    LET sorted == sortedUrls(m)
        fromMp4 ==
            IF Len(m.mp4Files) > 0 /\ Len(sorted) > 0
            THEN sorted[TierIndex(qualitySetting_, Len(sorted)) + 1]
            ELSE ""
        streams ==
            fromMp4 = "" /\ (Len(m.videoUrls) > 0 \/ Len(m.m3u8Playlists) > 0)
    IN [videoUrl |->
            IF ~streams THEN fromMp4
            ELSE IF Len(m.videoUrls) > 0 THEN First(m.videoUrls)
            ELSE First(m.m3u8Playlists),
        audioUrl |->
            IF streams /\ Len(m.audioUrls) > 0 THEN First(m.audioUrls) ELSE ""]

\* Where a strategy sends the selected URL, main.ts:515 and 1266:
\* if (videoUrl.endsWith(".m3u8")) executeFFmpeg, else the byte-stream
\* download (567; 1318-1339).
Dispatch(videoUrl) ==
    IF endsWith(videoUrl, ".m3u8") THEN "executeFFmpeg" ELSE "download"

\* Selection in downloadXVideo, main.ts:1142-1231.
FullSelect(m, quality) ==
    LET sorted == sortedUrls(m)
    IN [videoUrl |->
            IF Len(m.mp4Files) > 0
            THEN IF Len(sorted) > 0
                 THEN sorted[TierIndex(quality, Len(sorted)) + 1]
                 ELSE IF Len(m.m3u8Playlists) > 0 THEN First(m.m3u8Playlists)
                 ELSE ""
            ELSE IF Len(m.videoUrls) > 0 THEN First(m.videoUrls)
            ELSE IF Len(m.m3u8Playlists) > 0 THEN First(m.m3u8Playlists)
            ELSE "",
        audioUrl |->
            IF Len(m.audioUrls) > 0 THEN First(m.audioUrls) ELSE ""]

(***************************************************************************)
(* The Media URL Registry: four JavaScript Sets, main.ts:292-297 and       *)
(* main.ts:937-942.  A Set iterates in insertion order and the selection   *)
(* reads Array.from(set), so each is a duplicate-free sequence.            *)
(***************************************************************************)
EmptyRegistry ==
    [m3u8Playlists |-> <<>>, mp4Files |-> <<>>,
     videoUrls |-> <<>>, audioUrls |-> <<>>]

Members(set) == {set[i] : i \in DOMAIN set}

\* A registry set that keeps the latest URL only (not the program's).
addLatestOnly(set, url) == <<url>>

\* Set.prototype.add.
add(set, url) == IF url \in Members(set) THEN set ELSE Append(set, url)

\* The media branch of the response handler, main.ts:311-328 (and 947-964).
classifyResponse(m, url, contentType) ==
    IF includes(url, ".m3u8") \/ includes(contentType, "application/x-mpegURL")
    THEN LET m1 == [m EXCEPT !.m3u8Playlists = add(@, url)]
         IN IF includes(url, "video")
            THEN [m1 EXCEPT !.videoUrls = add(@, url)]
            ELSE IF includes(url, "audio")
                 THEN [m1 EXCEPT !.audioUrls = add(@, url)]
                 ELSE m1
    ELSE IF includes(url, ".mp4") \/ includes(contentType, "video/mp4")
         THEN [m EXCEPT !.mp4Files = add(@, url)]
         ELSE m

\* The condition of the API branch, main.ts:331-339 (and 967-975).
isApiResponse(url, contentType) ==
    /\ \/ includes(url, "api.twitter.com")
       \/ includes(url, "api.x.com")
       \/ includes(url, "video.twimg")
       \/ includes(url, "ton/tweet/")
    /\ \/ includes(contentType, "application/json")
       \/ includes(contentType, "video")
       \/ contentType = ""

\* The API branch does not parse the body, main.ts:342.
isUnparsedBody(contentType) == includes(contentType, "video") \/ contentType = ""

\* The handler up to its await of response.json(), main.ts:308-348.
handleResponse(m, url, contentType) ==
    LET m1 == classifyResponse(m, url, contentType)
    IN IF isApiResponse(url, contentType) /\ isUnparsedBody(contentType)
          /\ includes(url, ".mp4")
       THEN [m1 EXCEPT !.mp4Files = add(@, url)]
       ELSE m1

\* The insertions of the DOM scrape, main.ts:397-403 (and 1066-1072), and of
\* the resource-timing scrape, main.ts:1134-1140.
classifySource(m, src) ==
    IF includes(src, ".mp4") THEN [m EXCEPT !.mp4Files = add(@, src)]
    ELSE IF includes(src, ".m3u8") THEN [m EXCEPT !.m3u8Playlists = add(@, src)]
    ELSE m

\* videoSrcs.forEach / resources.forEach, from item i on.
RECURSIVE classifySources(_, _, _)
classifySources(m, srcs, i) ==
    IF i > Len(srcs) THEN m
    ELSE classifySources(classifySource(m, srcs[i]), srcs, i + 1)

\* The filter of the resource-timing scrape, main.ts:1119-1127.
isVideoResource(name) ==
    \/ includes(name, "video.twimg.com")
    \/ includes(name, ".mp4")
    \/ includes(name, "video/")

\* The resource-timing scrape, main.ts:1114-1140.
scrapeResources(m, names) ==
    classifySources(m, SelectSeq(names, isVideoResource), 1)

(***************************************************************************)
(* JSON values: a string, null, an object or an array.  kv holds an        *)
(* object's properties in key order, an array's items in index order.      *)
(***************************************************************************)
JString(s) == [t |-> "string", s |-> s, kv |-> <<>>]
JNull == [t |-> "null", s |-> "", kv |-> <<>>]
JUndefined == [t |-> "undefined", s |-> "", kv |-> <<>>]
JObject(kv) == [t |-> "object", s |-> "", kv |-> kv]
JArray(items) ==
    [t |-> "array", s |-> "",
     kv |-> [i \in 1..Len(items) |-> [k |-> "", v |-> items[i]]]]
Property(k, v) == [k |-> k, v |-> v]

\* data.key; undefined when data has no such property.
Get(data, key) ==
    IF data.t = "object" /\ \E i \in DOMAIN data.kv : data.kv[i].k = key
    THEN data.kv[CHOOSE i \in DOMAIN data.kv : data.kv[i].k = key].v
    ELSE JUndefined

\* data.key?.inner
GetOptional(data, key, inner) ==
    IF Get(data, key).t \in {"null", "undefined"} THEN JUndefined
    ELSE Get(Get(data, key), inner)

Truthy(v) == v.t \in {"object", "array"} \/ (v.t = "string" /\ v.s # "")

\* The classification of a variant's url, main.ts:1369-1376 (and 1385-1395).
addVariantUrl(m, variant) ==
    LET url == Get(variant, "url")
    IN IF ~Truthy(url) THEN m
       ELSE IF includes(url.s, ".m3u8")
            THEN [m EXCEPT !.m3u8Playlists = add(@, url.s)]
       ELSE IF includes(url.s, ".mp4")
            THEN [m EXCEPT !.mp4Files = add(@, url.s)]
       ELSE m

\* for (const variant of variants), main.ts:1368-1377, from item i on.  The
\* bodies of JsonBodies have arrays of objects with string urls here; on
\* anything else the loop would throw into the handler's catch.
RECURSIVE addVariants(_, _, _)
addVariants(m, variants, i) ==
    IF i > Len(variants.kv) THEN m
    ELSE addVariants(addVariantUrl(m, variants.kv[i].v), variants, i + 1)

\* for (const media of data.extended_entities.media), main.ts:1382-1398.
RECURSIVE addMedia(_, _, _)
addMedia(m, media, i) ==
    IF i > Len(media.kv) THEN m
    ELSE LET variants == GetOptional(media.kv[i].v, "video_info", "variants")
         IN addMedia(IF Truthy(variants) THEN addVariants(m, variants, 1) ELSE m,
                     media, i + 1)

\* The classification of a string property, main.ts:1405-1417.
addStringProperty(m, value) ==
    IF /\ includes(value, "video.twimg.com") \/ includes(value, "amp.twimg.com")
       /\ includes(value, ".mp4") \/ includes(value, ".m3u8")
    THEN IF includes(value, ".mp4")
         THEN [m EXCEPT !.mp4Files = add(@, value)]
         ELSE [m EXCEPT !.m3u8Playlists = add(@, value)]
    ELSE m

\* for (const key in data), main.ts:1403-1419, from property i on.
RECURSIVE scanStrings(_, _, _)
scanStrings(m, data, i) ==
    IF i > Len(data.kv) THEN m
    ELSE scanStrings(IF data.kv[i].v.t = "string"
                     THEN addStringProperty(m, data.kv[i].v.s)
                     ELSE m,
                     data, i + 1)

\* extractVideoUrls, main.ts:1363-1432; extractEach is its closing loop,
\* main.ts:1423-1431.
RECURSIVE extractVideoUrls(_, _)
RECURSIVE extractEach(_, _, _)
extractVideoUrls(data, m) ==
    IF data.t \notin {"object", "array"} THEN m
    ELSE LET variants == GetOptional(data, "video_info", "variants")
             media == GetOptional(data, "extended_entities", "media")
             m1 == IF Truthy(variants) THEN addVariants(m, variants, 1) ELSE m
             m2 == IF Truthy(media) THEN addMedia(m1, media, 1) ELSE m1
             m3 == scanStrings(m2, data, 1)
         IN extractEach(data, m3, 1)

extractEachShallow(data, m, i) == m   \* variant: no descent

extractEach(data, m, i) ==
    IF i > Len(data.kv) THEN m
    ELSE extractEach(data, extractVideoUrls(data.kv[i].v, m), i + 1)

\* Response bodies the API hosts serve.
VariantsBody ==
    JObject(<<Property("video_info", JObject(<<Property("variants", JArray(<<
        JObject(<<Property("url", JString("stream.m3u8?tag=9"))>>),
        JObject(<<Property("url", JString("a-640x360.mp4"))>>)>>))>>))>>)

EntitiesBody ==
    JObject(<<Property("extended_entities", JObject(<<Property("media", JArray(<<
        JObject(<<Property("video_info", JObject(<<Property("variants", JArray(<<
            JObject(<<Property("url", JString("audio.m3u8"))>>),
            JObject(<<Property("bitrate", JNull)>>)>>))>>))>>)>>))>>))>>)

NestedBody ==
    JObject(<<Property("data", JArray(<<
                  JObject(<<Property("src", JString("b.mp4?x-bit-rate=832"))>>),
                  JArray(<<JString("amp.twimg.com/s.m3u8"), JNull>>)>>)),
              Property("poster", JString("video.twimg.com/c.mp4"))>>)

JsonBodies ==
    ("variants" :> VariantsBody) @@ ("entities" :> EntitiesBody)
    @@ ("nested" :> NestedBody)

\* A body that response.json() rejects, main.ts:350-354.
InvalidBody == "invalid"

BodyIds == DOMAIN JsonBodies \cup {InvalidBody}

\* The responses a page load delivers: response.url() and
\* response.headers()["content-type"] || "".
Responses ==
    {<<"a-1280x720.mp4", "video/mp4">>,
     <<"a-640x360.mp4", "video/mp4">>,
     <<"a-320x180.mp4", "">>,
     <<"seg1.m4s", "video/mp4">>,
     <<"seg2.m4s", "video/mp4">>,
     <<"seg1.m4s", "application/x-mpegURL">>,
     <<"stream.m3u8?tag=9", "application/x-mpegURL">>,
     <<"video.m3u8", "application/x-mpegURL">>,
     <<"audio.m3u8", "">>,
     <<"video.twimg.com/c.mp4", "video/mp4">>,
     <<"video.twimg.com/c.mp4", "application/json">>,
     <<"api.x.com/t", "application/json">>,
     <<"api.x.com/t", "">>,
     <<"poster.jpg", "image/jpeg">>}

\* The non-empty src values of the page's video elements, in document order.
VideoSrcLists ==
    {<<>>, <<"blob:x.com/1">>, <<"a-640x360.mp4">>,
     <<"stream.m3u8?tag=9">>,
     <<"video.m3u8", "a-640x360.mp4">>}

\* The names of the page's resource-timing entries, in their order.
ResourceLists ==
    {<<>>, <<"poster.jpg", "video.twimg.com/c.mp4">>,
     <<"a-1280x720.mp4", "stream.m3u8?tag=9">>}

Tiers == {"highest", "high", "medium", "low", "lowest"}

\* The registry holds at most MaxCandidates candidates (direct files plus
\* manifests).
MaxCandidates == 3

Candidates(m) == Len(m.mp4Files) + Len(m.m3u8Playlists)

(***************************************************************************)
(* Discovery and selection as a state machine: one run of a strategy from  *)
(* the creation of its registry to its selection.  The callbacks of the    *)
(* page (responses, settled bodies) run one at a time in any order while   *)
(* the main flow is parked at an await.                                    *)
(*                                                                         *)
(* otherUrls is the registry of a second run of the same strategy on the   *)
(* same page, in which the same callbacks and probe insertions happen, but *)
(* any two consecutive ones may have happened in the other order: held is  *)
(* the one the second run has yet to see.                                  *)
(***************************************************************************)
NoEvent == [kind |-> "none", url |-> "", arg |-> "", srcs |-> <<>>]
ResponseEvent(url, contentType) ==
    [kind |-> "response", url |-> url, arg |-> contentType, srcs |-> <<>>]
JsonEvent(body) == [kind |-> "json", url |-> "", arg |-> body, srcs |-> <<>>]
ScrapeEvent(videoSrcs) ==
    [kind |-> "scrape", url |-> "", arg |-> "", srcs |-> videoSrcs]

\* The response's body goes to response.json(), main.ts:350.
bodyParsed(url, contentType) ==
    isApiResponse(url, contentType) /\ ~isUnparsedBody(contentType)

\* What a callback or a probe inserts into a registry.
apply(m, e) ==
    CASE e.kind = "response" -> handleResponse(m, e.url, e.arg)
      [] e.kind = "json" -> IF e.arg = InvalidBody THEN m
                            ELSE extractVideoUrls(JsonBodies[e.arg], m)
      [] e.kind = "scrape" -> classifySources(m, e.srcs, 1)
      [] OTHER -> m

\* Two consecutive events can also happen in the other order, unless the
\* second is the settling of the first one's body.
canSwap(first, second) ==
    ~(/\ first.kind = "response"
      /\ bodyParsed(first.url, first.arg)
      /\ second.kind = "json")

\* The event e happens: the run's registry takes its insertions, and the
\* second run sees it now or after the next event.  An event that inserts
\* nothing new is not worth delaying.
Observe(e) ==
    /\ Candidates(apply(mediaUrls, e)) <= MaxCandidates
    /\ mediaUrls' = apply(mediaUrls, e)
    /\ IF held = NoEvent
       THEN \E delay \in BOOLEAN :
               IF delay /\ apply(mediaUrls, e) # mediaUrls
               THEN held' = e /\ otherUrls' = otherUrls
               ELSE held' = NoEvent /\ otherUrls' = apply(otherUrls, e)
       ELSE /\ held' = NoEvent
            /\ otherUrls' = IF canSwap(held, e)
                            THEN apply(apply(otherUrls, e), held)
                            ELSE apply(apply(otherUrls, held), e)

SelIdle ==
    /\ strategy = "none"
    /\ qualitySetting = "highest"
    /\ mediaUrls = EmptyRegistry
    /\ otherUrls = EmptyRegistry
    /\ held = NoEvent
    /\ selPhase = "idle"
    /\ pendingJson = FALSE
    /\ selection = NoSelection

\* After the registry is created and the handler attached, main.ts:292-356
\* and main.ts:937-992.  From here to the selection the two strategies run
\* the same code on the registry, so which of them the run belongs to, and
\* the tier it was asked for, show only at the selection.
SelInit ==
    /\ CtlInit
    /\ fastEnabled
    /\ urlValid
    /\ strategy = "none"
    /\ qualitySetting = "highest"
    /\ mediaUrls = EmptyRegistry
    /\ otherUrls = EmptyRegistry
    /\ held = NoEvent
    /\ selPhase = "observing"
    /\ pendingJson = FALSE
    /\ selection = NoSelection
    /\ ErrIdle

\* The browser is open and the main flow has not selected yet.
Discovering == selPhase \in {"observing", "scraped"}

\* page.on("response"), main.ts:307-356 (and 944-992), up to its return or
\* its await of response.json(); one body is awaited at a time.
OnResponse ==
    /\ Discovering
    /\ \E response \in Responses :
          LET url == response[1]
              contentType == response[2]
          IN /\ Observe(ResponseEvent(url, contentType))
             /\ IF bodyParsed(url, contentType)
                THEN ~pendingJson /\ pendingJson' = TRUE
                ELSE UNCHANGED pendingJson
    /\ UNCHANGED <<strategy, qualitySetting, selPhase, selection>>
    /\ UNCHANGED <<ctlVars, errVars>>

\* response.json() settles with the body the server sent, or rejects, and the
\* handler resumes, main.ts:350-354.
OnJsonSettled ==
    /\ Discovering
    /\ pendingJson
    /\ pendingJson' = FALSE
    /\ \E body \in BodyIds : Observe(JsonEvent(body))
    /\ UNCHANGED <<strategy, qualitySetting, selPhase, selection>>
    /\ UNCHANGED <<ctlVars, errVars>>

\* The DOM scrape after its evaluate resolves, main.ts:395-404; in
\* downloadXVideo, main.ts:1064-1073, it runs only if no selector matched.
ScrapeVideoSrcs ==
    /\ selPhase = "observing"
    /\ selPhase' = "scraped"
    /\ \E videoSrcs \in VideoSrcLists : Observe(ScrapeEvent(videoSrcs))
    /\ UNCHANGED <<strategy, qualitySetting, pendingJson, selection>>
    /\ UNCHANGED <<ctlVars, errVars>>

\* tryFastVideoDownload after browser.close() resolves, main.ts:409-505, with
\* the tier it was called with.  The closed browser settles no more bodies.
FastSelection ==
    /\ selPhase = "scraped"
    /\ selPhase' = "selected"
    /\ strategy' = "fast"
    /\ \E quality \in Tiers :
          /\ qualitySetting' = quality
          /\ selection' = FastSelect(mediaUrls, quality)
    /\ pendingJson' = FALSE
    /\ UNCHANGED <<mediaUrls, otherUrls, held>>
    /\ UNCHANGED <<ctlVars, errVars>>

\* downloadXVideo after the resource-timing evaluate resolves,
\* main.ts:1133-1231, with the tier it was called with: the insertions of
\* the scrape, then the selection.
FullSelection ==
    /\ Discovering
    /\ selPhase' = "selected"
    /\ strategy' = "full"
    /\ \E resources \in ResourceLists, quality \in Tiers :
          /\ Candidates(scrapeResources(mediaUrls, resources)) <= MaxCandidates
          /\ mediaUrls' = scrapeResources(mediaUrls, resources)
          /\ otherUrls' = scrapeResources(otherUrls, resources)
          /\ qualitySetting' = quality
          /\ selection' = FullSelect(scrapeResources(mediaUrls, resources), quality)
    /\ pendingJson' = FALSE
    /\ UNCHANGED held
    /\ UNCHANGED <<ctlVars, errVars>>

SelNext ==
    \/ OnResponse
    \/ OnJsonSettled
    \/ ScrapeVideoSrcs
    \/ FastSelection
    \/ FullSelection

(***************************************************************************)
(* processStderr, main.ts:756-823: the reader of the diagnostic stream of  *)
(* the ffmpeg subprocess.  Each chunk that reader.read() hands over is     *)
(* decoded and matched on its own.  Times are in hundredths of a second,   *)
(* progressRatio in thousandths.                                           *)
(***************************************************************************)

CharAt(s, i) == IF i \in 1..Len(s) THEN s[i] ELSE ""

\* s has `word` at position i.
StartsAt(s, i, word) ==
    /\ i + Len(word) - 1 <= Len(s)
    /\ SubSeq(s, i, i + Len(word) - 1) = word

\* \d+ at position i: the length of the longest run of digits.
RECURSIVE DigitRun(_, _)
DigitRun(s, i) ==
    IF i <= Len(s) /\ s[i] \in Digits THEN 1 + DigitRun(s, i + 1) ELSE 0

\* parseFloat of the digits after the point, in hundredths (the streams
\* carry two digits there, as ffmpeg prints them).
Hundredths(s, i) ==
    (IF CharAt(s, i) \in Digits THEN 10 * DigitValue(s[i]) ELSE 0)
    + (IF CharAt(s, i) \in Digits /\ CharAt(s, i + 1) \in Digits
       THEN DigitValue(s[i + 1]) ELSE 0)

\* (\d+):(\d+):(\d+\.\d+) at position i.  Every \d+ is greedy and is followed
\* by a character that is not a digit, so the longest runs are the only way
\* to match.
ClockAt(s, i) ==
    LET h == DigitRun(s, i)
        mi == i + h + 1
        m == DigitRun(s, mi)
        si == mi + m + 1
        w == DigitRun(s, si)
        fi == si + w + 1
        f == DigitRun(s, fi)
    IN [ok |-> /\ h > 0 /\ CharAt(s, i + h) = ":"
               /\ m > 0 /\ CharAt(s, mi + m) = ":"
               /\ w > 0 /\ CharAt(s, si + w) = "."
               /\ f > 0,
        hours |-> ParseDigits(s, i, 0),
        minutes |-> ParseDigits(s, mi, 0),
        seconds |-> ParseDigits(s, si, 0) * 100 + Hundredths(s, fi),
        last |-> fi + f - 1]

\* text.match(/<word>(\d+):(\d+):(\d+\.\d+)/): the leftmost match, .ok false
\* when there is none.
ClockMatch(s, word) ==
    LET starts == {i \in 1..Len(s) :
                     StartsAt(s, i, word) /\ ClockAt(s, i + Len(word)).ok}
    IN IF starts = {} THEN ClockAt(s, Len(s) + 1)
                      ELSE ClockAt(s, Minimum(starts) + Len(word))

\* hours * 3600 + minutes * 60 + seconds, main.ts:778 and 787.
ClockValue(match) ==
    match.hours * 360000 + match.minutes * 6000 + match.seconds

DurationWord == <<"D", "u", "r", "a", "t", "i", "o", "n", ":", " ">>

TimeWord == <<"t", "i", "m", "e", "=">>

SpeedWord == <<"s", "p", "e", "e", "d", "=">>

Whitespace == {" ", "\n", "\r", "\t"}

\* \S+ at position i: the length of the longest run without whitespace.
RECURSIVE NonSpaceRun(_, _)
NonSpaceRun(s, i) ==
    IF i <= Len(s) /\ s[i] \notin Whitespace THEN 1 + NonSpaceRun(s, i + 1)
                                             ELSE 0

\* (\S+)x at position i: the lengths the capture can have; \S+ is greedy, so
\* the match takes the longest.
SpeedCaptures(s, i) ==
    {k \in 1..NonSpaceRun(s, i) : k < NonSpaceRun(s, i) /\ s[i + k] = "x"}

\* text.match(/speed=(\S+)x/), main.ts:796: the capture of the leftmost
\* match, empty when there is none.
SpeedMatch(s) ==
    LET starts == {i \in 1..Len(s) :
                     /\ StartsAt(s, i, SpeedWord)
                     /\ SpeedCaptures(s, i + Len(SpeedWord)) # {}}
    IN IF starts = {} THEN <<>>
       ELSE LET j == Minimum(starts) + Len(SpeedWord)
                k == CHOOSE k \in SpeedCaptures(s, j) :
                        \A l \in SpeedCaptures(s, j) : l <= k
            IN SubSeq(s, j, j + k - 1)

\* The three matches the loop body takes from one decoded chunk,
\* main.ts:770-772, 782 and 796.
Scan(text) ==
    [durationMatch |-> ClockMatch(text, DurationWord),
     timeMatch |-> ClockMatch(text, TimeWord),
     speedMatch |-> SpeedMatch(text)]

\* Math.min(currentTime / duration, 1.0), main.ts:791.
Ratio(currentTime_, duration_) ==
    Min2((currentTime_ * 1000) \div duration_, 1000)

\* The locals of executeFFmpeg that processStderr writes, main.ts:749-752.
InitialLocals ==
    [duration |-> 0, currentTime |-> 0, speed |-> <<"0", "x">>,
     progressRatio |-> 0]

\* The body of the read loop for one chunk, main.ts:766-818, given the
\* matches of its text.  `elapsed`: more than 100 ms went by since the last
\* update of the indicator.
processStderr(locals, found, elapsed) ==
    LET durationMatch == found.durationMatch
        timeMatch == found.timeMatch
        duration1 == IF locals.duration = 0 /\ durationMatch.ok
                     THEN ClockValue(durationMatch)
                     ELSE locals.duration
        currentTime1 == IF timeMatch.ok THEN ClockValue(timeMatch)
                                        ELSE locals.currentTime
        ratio1 == IF timeMatch.ok /\ duration1 > 0
                  THEN Ratio(currentTime1, duration1)
                  ELSE locals.progressRatio
    IN [duration |-> duration1,
        currentTime |-> currentTime1,
        speed |-> IF found.speedMatch # <<>>
                  THEN found.speedMatch \o <<"x">>
                  ELSE locals.speed,
        progressRatio |-> IF elapsed /\ duration1 = 0
                          THEN (ratio1 + 10) % 1000
                          ELSE ratio1]

\* One input, positions moving forward:
\*   Duration: 0:0:9.50\ntime=0:0:2.25 speed=2x\ntime=0:0:5.00 speed=1.5x\n
PlainStream ==
    <<"D", "u", "r", "a", "t", "i", "o", "n", ":", " ", "0", ":", "0", ":",
      "9", ".", "5", "0", "\n", "t", "i", "m", "e", "=", "0", ":", "0", ":",
      "2", ".", "2", "5", " ", "s", "p", "e", "e", "d", "=", "2", "x", "\n",
      "t", "i", "m", "e", "=", "0", ":", "0", ":", "5", ".", "0", "0", " ",
      "s", "p", "e", "e", "d", "=", "1", ".", "5", "x", "\n">>

\* Two inputs (a video and an audio manifest), each with its Duration line:
\*   Duration: 0:0:9.50\nDuration: 0:0:8.00\ntime=0:0:4.00 speed=1x\n
TwoInputStream ==
    <<"D", "u", "r", "a", "t", "i", "o", "n", ":", " ", "0", ":", "0", ":",
      "9", ".", "5", "0", "\n", "D", "u", "r", "a", "t", "i", "o", "n", ":",
      " ", "0", ":", "0", ":", "8", ".", "0", "0", "\n", "t", "i", "m", "e",
      "=", "0", ":", "0", ":", "4", ".", "0", "0", " ", "s", "p", "e", "e",
      "d", "=", "1", "x", "\n">>

\* A position lower than the one before it:
\*   Duration: 0:0:9.50\ntime=0:0:5.00\ntime=0:0:4.00\n
BackwardStream ==
    <<"D", "u", "r", "a", "t", "i", "o", "n", ":", " ", "0", ":", "0", ":",
      "9", ".", "5", "0", "\n", "t", "i", "m", "e", "=", "0", ":", "0", ":",
      "5", ".", "0", "0", "\n", "t", "i", "m", "e", "=", "0", ":", "0", ":",
      "4", ".", "0", "0", "\n">>

\* A first input of duration zero, a position past the duration:
\*   Duration: 0:0:0.00\nDuration: 0:0:8.00\ntime=0:0:9.00\n
ZeroDurationStream ==
    <<"D", "u", "r", "a", "t", "i", "o", "n", ":", " ", "0", ":", "0", ":",
      "0", ".", "0", "0", "\n", "D", "u", "r", "a", "t", "i", "o", "n", ":",
      " ", "0", ":", "0", ":", "8", ".", "0", "0", "\n", "t", "i", "m", "e",
      "=", "0", ":", "0", ":", "9", ".", "0", "0", "\n">>

\* What the subprocess writes to its diagnostic stream.
Streams == {PlainStream, TwoInputStream, BackwardStream, ZeroDurationStream}

\* Scan of every chunk a stream can be read in: the characters from..to.
ScanTable ==
    [s \in Streams |->
       [from \in 1..Len(s) |->
          [to \in from..Len(s) |-> Scan(SubSeq(s, from, to))]]]

\* The locals after a delivery that hands over one line per read.
RECURSIVE LineByLine(_, _, _)
LineByLine(locals, s, from) ==
    IF from > Len(s) THEN locals
    ELSE LET ends == {e \in from..Len(s) : s[e] = "\n"}
             e == IF ends = {} THEN Len(s) ELSE Minimum(ends)
         IN LineByLine(processStderr(locals, ScanTable[s][from][e], TRUE),
                       s, e + 1)

\* processStderr() was called (826) in the executeFFmpeg that
\* tryFastVideoDownload calls (557): the session was closed, the indicator
\* started and the subprocess spawned; it will write one of the streams and
\* nothing was read yet.  The main flow is parked at await process.status
\* (829) while the reader runs in the background.
ErrInit ==
    /\ mainPc = "fastFfmpeg"
    /\ fastEnabled = TRUE
    /\ urlValid = TRUE
    /\ browserInstance = Null
    /\ browserState = [b \in Browsers |->
                         IF b = "fastBrowser" THEN "closed" ELSE "none"]
    /\ ffmpegProcess = "fastFfmpeg"
    /\ ffmpegState = [p \in Subprocesses |->
                        IF p = "fastFfmpeg" THEN "running" ELSE "none"]
    /\ termSent = {}
    /\ sigPc = "idle"
    /\ sigBrowser = Null
    /\ exited = FALSE
    /\ exitCode = 0
    /\ fastRuns = 1
    /\ fullRuns = 0
    /\ fastResult = "none"
    /\ fullResult = "none"
    /\ fullOutcome = "none"
    /\ progress = [ind \in Indicators |->
                     IF ind = "fastFfmpeg" THEN "started" ELSE "none"]
    /\ ffmpegResult = [p \in Subprocesses |-> "none"]
    /\ download = InitialDownload
    /\ fullTrace = InitialTrace
    /\ SelIdle
    /\ diagnostics \in Streams
    /\ delivered = 0
    /\ readerDone = FALSE
    /\ duration = InitialLocals.duration
    /\ currentTime = InitialLocals.currentTime
    /\ speed = InitialLocals.speed
    /\ progressRatio = InitialLocals.progressRatio

\* await reader.read() resolves with a chunk, main.ts:763-818: the stream
\* hands over its next characters, as many as the pipe happens to hold.
ReadStderr ==
    /\ ~readerDone /\ delivered < Len(diagnostics)
    /\ \E n \in 1..(Len(diagnostics) - delivered), elapsed \in BOOLEAN :
         LET found == ScanTable[diagnostics][delivered + 1][delivered + n]
             after == processStderr(
                         [duration |-> duration, currentTime |-> currentTime,
                          speed |-> speed, progressRatio |-> progressRatio],
                         found, elapsed)
         IN /\ delivered' = delivered + n
            /\ duration' = after.duration
            /\ currentTime' = after.currentTime
            /\ speed' = after.speed
            /\ progressRatio' = after.progressRatio
            /\ IF elapsed THEN UpdateProgress("fastFfmpeg")
                          ELSE UNCHANGED progress
    /\ UNCHANGED <<diagnostics, readerDone>>
    /\ UNCHANGED <<mainPc, fastEnabled, urlValid, browserInstance, browserState,
                   ffmpegProcess, ffmpegState, termSent, sigPc, sigBrowser,
                   exited, exitCode, fastRuns, fullRuns, fastResult, fullResult,
                   fullOutcome, ffmpegResult, download, fullTrace>>
    /\ UNCHANGED selVars

\* await reader.read() resolves with done, main.ts:763-764 and 819-821: the
\* loop ends and the reader is released.
StderrEnds ==
    /\ ~readerDone /\ delivered = Len(diagnostics) /\ diagnostics # <<>>
    /\ readerDone' = TRUE
    /\ UNCHANGED <<diagnostics, delivered, duration, currentTime, speed,
                   progressRatio>>
    /\ UNCHANGED <<ctlVars, selVars>>

\* The reader runs in the background (826) while the main flow waits for the
\* exit of the subprocess and then returns (829-844).
ErrNext ==
    \/ ReadStderr
    \/ StderrEnds
    \/ FfmpegExits
    \/ FastFfmpegDone

Init == CtlInit /\ SelIdle /\ ErrIdle

Next == CtlNext

Spec == Init /\ [][Next]_vars

SpecSelect == SelInit /\ [][SelNext]_vars

SpecStderr == ErrInit /\ [][ErrNext]_vars

(***************************************************************************)
(* Claims about the control flow, checked under Spec.                      *)
(***************************************************************************)

\* C1: strategy ordering in main.  The fast strategy is attempted first unless
\* fast mode is disabled; whenever it does not succeed (no URL found, or any of
\* its steps raised: opening the session, navigation, download, transcode) the
\* full strategy runs next, exactly once; when it succeeds the full strategy
\* never runs; after the full strategy fails nothing else is attempted and the
\* process exits with status 1.
C1_StrategyOrdering ==
    /\ fastRuns <= 1 /\ fullRuns <= 1
    /\ ~fastEnabled => fastRuns = 0
    /\ (fastEnabled /\ fullRuns = 1) => (fastRuns = 1 /\ fastResult = "false")
    /\ fastResult = "true" => fullRuns = 0
    /\ (fastRuns = 1 /\ fastResult \in {"false", "threw"}) => fullRuns = 1
    /\ (fullResult = "threw" /\ exited /\ sigPc = "idle") => exitCode = ExitFailure

\* C2: every exit path of tryFastVideoDownload and of downloadXVideo leaves no
\* render session open: once either has returned or thrown, the browser it
\* launched is closed and the browserInstance slot is empty (the slot stays
\* empty from the return of tryFastVideoDownload until downloadXVideo launches
\* its own browser).
C2_NoSessionAfterExitPath ==
    /\ fastResult # "none" =>
          /\ ~SessionOpen("fastBrowser")
          /\ browserInstance # "fastBrowser"
          /\ browserState["fullBrowser"] = "none" => browserInstance = Null
    /\ fullResult # "none" =>
          /\ ~SessionOpen("fullBrowser")
          /\ browserInstance = Null

\* C2 witness: downloadXVideo has thrown after launching its browser, which
\* followed a fast strategy that failed after launching its own.
C2_Witness ==
    /\ fullResult = "threw" /\ fastResult = "false"
    /\ browserState["fullBrowser"] = "closed"
    /\ browserState["fastBrowser"] = "closed"

\* C3: when the process exits on SIGINT, the transcoder subprocess (if one is
\* running) has been sent a termination signal and no render session opened by
\* the main flow is open.
C3_CleanAtInterruptExit ==
    (exited /\ exitCode = ExitInterrupt) =>
        /\ \A p \in Subprocesses : ffmpegState[p] = "running" => p \in termSent
        /\ \A b \in Browsers : ~SessionOpen(b)

\* C4: once SIGINT has been received, the status the process exits with is the
\* interrupt code 130, never 0 or 1, in every interleaving of the listener
\* with the main flow.
C4_InterruptExitCode ==
    (exited /\ sigPc # "idle") => exitCode = ExitInterrupt

\* C5: at most one render session is open and at most one transcoder
\* subprocess is running; an open session or running subprocess is the one the
\* process-wide slot references; the fast strategy's session is closed before
\* the full strategy launches its own.
C5_SingleSessionAndSubprocess ==
    /\ Cardinality({b \in Browsers : SessionOpen(b)}) <= 1
    /\ Cardinality({p \in Subprocesses : ffmpegState[p] = "running"}) <= 1
    /\ \A b \in Browsers : SessionOpen(b) => browserInstance = b
    /\ \A p \in Subprocesses : ffmpegState[p] = "running" => ffmpegProcess = p
    /\ browserState["fullBrowser"] # "none" => ~SessionOpen("fastBrowser")

\* C5 witness: the full strategy transcodes with its session open, after the
\* fast strategy's session and subprocess are gone.
C5_Witness ==
    /\ browserState["fastBrowser"] = "closed"
    /\ ffmpegState["fastFfmpeg"] = "exitedErr"
    /\ browserState["fullBrowser"] = "open"
    /\ ffmpegState["fullFfmpeg"] = "running"

(***************************************************************************)
(* Claims about discovery and selection, checked under SpecSelect.         *)
(***************************************************************************)

\* C6: whenever the direct-media-file set holds at least one complete
\* (non-segment) URL, either strategy selects one of the complete URLs; with
\* tier 'highest' it has maximal quality score among them, with tier 'lowest'
\* minimal, and when there is exactly one complete URL every tier selects it.
C6_RankingExtremes ==
    (selPhase = "selected" /\ fullMp4s(mediaUrls) # <<>>) =>
        LET complete == Members(fullMp4s(mediaUrls))
            chosen == selection.videoUrl
        IN /\ chosen \in complete
           /\ qualitySetting = "highest" =>
                 \A u \in complete : QualityScore[chosen] >= QualityScore[u]
           /\ qualitySetting = "lowest" =>
                 \A u \in complete : QualityScore[chosen] <= QualityScore[u]
           /\ Cardinality(complete) = 1 => complete = {chosen}

\* C6 witness (scenario A): a-640x360.mp4 was observed before a-1280x720.mp4
\* and tier 'highest' selected a-1280x720.mp4.
C6_Witness ==
    /\ selPhase = "selected"
    /\ strategy = "fast"
    /\ qualitySetting = "highest"
    /\ mediaUrls.mp4Files = <<"a-640x360.mp4", "a-1280x720.mp4">>
    /\ selection.videoUrl = "a-1280x720.mp4"

C8_DirectSetPreference ==
    selPhase = "selected" =>
        /\ selection.videoUrl \in Members(mediaUrls.mp4Files)
              <=> fullMp4s(mediaUrls) # <<>>
        /\ (fullMp4s(mediaUrls) = <<>> /\ mediaUrls.m3u8Playlists # <<>>) =>
              selection.videoUrl \in Members(mediaUrls.m3u8Playlists)

\* C9: when no complete direct-media-file URL exists, the selected video URL
\* is a tagged-video URL if the tagged-video set is not empty, otherwise a
\* manifest URL if the manifest set is not empty; and if the tagged-audio set
\* is not empty the selected audio URL is one of its members.
C9_ManifestBranch ==
    (selPhase = "selected" /\ fullMp4s(mediaUrls) = <<>>) =>
        /\ mediaUrls.videoUrls # <<>> =>
              selection.videoUrl \in Members(mediaUrls.videoUrls)
        /\ (mediaUrls.videoUrls = <<>> /\ mediaUrls.m3u8Playlists # <<>>) =>
              selection.videoUrl \in Members(mediaUrls.m3u8Playlists)
        /\ mediaUrls.audioUrls # <<>> =>
              selection.audioUrl \in Members(mediaUrls.audioUrls)

\* C10: a run in which the same callbacks and probe insertions happened in
\* another order, and which ends with the same four sets, selects the same
\* video and audio URL for the same tier.
C10_OrderIndependent ==
    (/\ selPhase = "selected"
     /\ held = NoEvent
     /\ \A set \in DOMAIN mediaUrls :
           Members(mediaUrls[set]) = Members(otherUrls[set])) =>
        selection = IF strategy = "fast"
                    THEN FastSelect(otherUrls, qualitySetting)
                    ELSE FullSelect(otherUrls, qualitySetting)

(***************************************************************************)
(* downloadFile and executeFFmpeg.                                         *)
(***************************************************************************)

\* C11: downloadFile throws to its caller when the GET response is not
\* successful or carries no body, and in neither case is a chunk written:
\* with a status that is not successful it has thrown as soon as the GET
\* settled; with no body it throws once Deno.open settled, whatever the
\* outcome; a thrown error makes the fast strategy fail.  When the status
\* is successful and the body was read to its end, downloadFile has returned
\* and the fast strategy succeeds.
C11_DownloadFailsWithoutWriting ==
    /\ download.get = "notOk" =>
         download.pc = "threw" /\ download.chunksWritten = 0
    /\ download.get = "okNoBody" =>
         download.pc \in {"open", "threw"} /\ download.chunksWritten = 0
    /\ download.pc = "threw" => fastResult # "true"
    /\ download.ended =>
         /\ download.get = "okBody"
         /\ download.pc = "returned"
         /\ mainPc # "fastDownload" => fastResult = "true"

\* C11: a response without a body made downloadFile throw after the file was
\* opened and closed again, and the fast strategy returned false.
C11_Witness ==
    /\ download.get = "okNoBody"
    /\ download.pc = "threw"
    /\ ~download.fileOpen
    /\ download.chunksWritten = 0
    /\ fastResult = "false"

C13_FfmpegResultFollowsExitCode ==
    \A p \in Subprocesses :
        ffmpegResult[p] # "none" =>
            /\ ffmpegResult[p] = "true" <=> ffmpegState[p] = "exitedOk"
            /\ ffmpegResult[p] = "false" <=> ffmpegState[p] \in {"none", "exitedErr"}
            /\ progress[p] = "finished"
            /\ ffmpegProcess # p
            /\ ffmpegResult[p] = "false" =>
                 IF p = "fastFfmpeg" THEN fastResult = "false"
                                     ELSE fullOutcome = "threw"
            /\ ffmpegResult[p] = "true" /\ p = "fastFfmpeg" => fastResult = "true"

\* C13: the subprocess of downloadXVideo exited with a code other than 0,
\* executeFFmpeg returned false with the indicator finalized and the slot
\* empty, and downloadXVideo threw.
C13_Witness ==
    /\ ffmpegState["fullFfmpeg"] = "exitedErr"
    /\ ffmpegResult["fullFfmpeg"] = "false"
    /\ progress["fullFfmpeg"] = "finished"
    /\ ffmpegProcess = Null
    /\ fullOutcome = "threw"

(***************************************************************************)
(* The reader of the diagnostic stream.                                    *)
(***************************************************************************)

\* C14: within one executeFFmpeg run the duration is captured once, from the
\* first 'Duration:' occurrence of the diagnostic stream, and does not change
\* afterwards: once that occurrence has been read, the duration is its value
\* for the rest of the run.
C14_DurationFromFirstOccurrence ==
    diagnostics # <<>> =>
        LET first == ScanTable[diagnostics][1][Len(diagnostics)].durationMatch
        IN first.ok /\ delivered >= first.last =>
               duration = ClockValue(first)

\* C15: the current position never decreases from one read to the next,
\* whatever 'time=' values the stream carries, and once the duration is known
\* the progress ratio never decreases either.
C15_PositionNeverDecreases ==
    [][/\ currentTime' >= currentTime
       /\ duration # 0 => progressRatio' >= progressRatio]_vars

\* C16: the duration and the position depend on the characters of the
\* diagnostic stream only, not on how reader.read() cuts them into chunks:
\* when the stream has ended they are what a delivery of one line per read
\* gives.
C16_SplitIndependent ==
    readerDone =>
        LET lines == LineByLine(InitialLocals, diagnostics, 1)
        IN duration = lines.duration /\ currentTime = lines.currentTime

(***************************************************************************)
(* Discovery in downloadXVideo.                                            *)
(***************************************************************************)

\* C17: in downloadXVideo the og:video probe is run exactly when selection
\* over the registry produced no video URL.  When the probe yields nothing
\* either, downloadXVideo throws: no download is started, the finally block
\* closes the session before the error reaches main, and the process, if no
\* interrupt took it over, exits with status 1.
C17_OgProbeIffNoSelection ==
    /\ fullTrace.ogProbe # "notRun" <=> fullTrace.picked = "none"
    /\ fullTrace.ogProbe = "nothing" =>
         /\ fullOutcome = "threw"
         /\ mainPc \in {"fullFinallyClose", "mainCatchClose", "exited"}
         /\ ffmpegState["fullFfmpeg"] = "none"
         /\ fullResult # "none" =>
              /\ fullResult = "threw"
              /\ browserInstance = Null
              /\ browserState["fullBrowser"] = "closed"
         /\ exited /\ sigPc = "idle" =>
              fullResult = "threw" /\ exitCode = ExitFailure

\* C17: selection and the og:video probe both came out empty, the session
\* was closed and the process exited with status 1 without an interrupt.
C17_Witness ==
    /\ fullTrace.picked = "none"
    /\ fullTrace.ogProbe = "nothing"
    /\ browserState["fullBrowser"] = "closed"
    /\ fullResult = "threw"
    /\ exited /\ exitCode = ExitFailure
    /\ sigPc = "idle"

\* C18: in downloadXVideo an error raised by a discovery probe (the selector
\* search, the DOM scrape, the nudge, the resource-timing scrape, the
\* meta-tag scrape) is caught where it is raised: no probe is the await whose
\* rejection left the try block, so the probes after it run and selection
\* takes place.
C18_ProbeErrorsContained ==
    LET probes == {"fullSelector", "fullDomScrape", "fullNudge",
                   "fullResources", "fullOgProbe"}
    IN /\ fullTrace.raisedAt \notin probes
       /\ fullOutcome = "threw" /\ fullTrace.raisedAt \notin {"fullSetup", "fullGoto"}
            => fullTrace.picked # "pending"

\* C19: every progress indicator that downloadFile or executeFFmpeg starts
\* is finalized when that function returns or throws; hence no indicator is
\* left started when main reports overall success or when the process exits
\* with a status other than that of the interrupt listener.
C19_ProgressFinalized ==
    /\ download.pc \in {"returned", "threw"} =>
         progress["fastDownload"] = "finished"
    /\ \A p \in Subprocesses :
         ffmpegResult[p] # "none" => progress[p] = "finished"
    /\ mainPc = "mainReturned" \/ (exited /\ exitCode # ExitInterrupt) =>
         \A ind \in Indicators : progress[ind] # "started"

\* C19: downloadFile threw in the fast strategy, executeFFmpeg returned false
\* in downloadXVideo, both indicators were finalized and the process exited
\* with status 1.
C19_Witness ==
    /\ download.pc = "threw"
    /\ progress["fastDownload"] = "finished"
    /\ ffmpegResult["fullFfmpeg"] = "false"
    /\ ffmpegState["fullFfmpeg"] = "exitedErr"
    /\ progress["fullFfmpeg"] = "finished"
    /\ exited /\ exitCode = ExitFailure

(***************************************************************************)
(* Recording into the registry.                                            *)
(***************************************************************************)

\* C20: recording into the registry is idempotent and commutative.  From
\* every registry a run reaches, recording a (url, contentType) pair a
\* second time changes nothing, and a run in which the same insertions
\* happened with consecutive ones in the other order holds the same four
\* sets: the sets depend on which pairs were recorded, not on their order
\* or multiplicity.
C20_RecordingIdempotentCommutative ==
    /\ \A r \in Responses :
          LET once == handleResponse(mediaUrls, r[1], r[2])
          IN handleResponse(once, r[1], r[2]) = once
    /\ held = NoEvent =>
          \A set \in DOMAIN mediaUrls :
             Members(mediaUrls[set]) = Members(otherUrls[set])

\* C20: two runs recorded the same manifests in different orders and hold
\* the same sets.
C20_Witness ==
    /\ held = NoEvent
    /\ Len(mediaUrls.m3u8Playlists) >= 2
    /\ mediaUrls.m3u8Playlists # otherUrls.m3u8Playlists
    /\ Members(mediaUrls.m3u8Playlists) = Members(otherUrls.m3u8Playlists)

(***************************************************************************)
(* The registry's invariants.                                              *)
(***************************************************************************)

\* C21: in every registry state the direct-media-file set and the manifest
\* set are disjoint, and a URL that contains the manifest extension is in
\* the manifest set and not in the direct-media-file set, whichever
\* discovery source recorded it.
C21_DirectAndManifestDisjoint ==
    /\ Members(mediaUrls.mp4Files) \cap Members(mediaUrls.m3u8Playlists) = {}
    /\ \A set \in DOMAIN mediaUrls : \A url \in Members(mediaUrls[set]) :
          includes(url, ".m3u8") =>
              /\ url \in Members(mediaUrls.m3u8Playlists)
              /\ url \notin Members(mediaUrls.mp4Files)

\* C22: no URL that ends in the media-segment suffix .m4s is a member of the
\* direct-media-file set, whatever content type its response declared and
\* whichever discovery source observed it.
C22_NoSegmentInDirectSet ==
    \A url \in Members(mediaUrls.mp4Files) : ~endsWith(url, ".m4s")

\* C23: every URL of the manifest set whose string contains 'video' is also
\* a member of the tagged-video set, whichever discovery source inserted it.
C23_VideoManifestsTagged ==
    \A url \in Members(mediaUrls.m3u8Playlists) :
        includes(url, "video") => url \in Members(mediaUrls.videoUrls)

(***************************************************************************)
(* The transfer loop of downloadFile.                                      *)
(***************************************************************************)

\* C24, as stated: in downloadFile the chunk writes are sequential and keep
\* the order of arrival: after the k-th iteration of the loop the file holds
\* exactly the first k chunks received, whole and in order, the byte counter
\* equals their total length, and the byte count reported on completion
\* equals the number of bytes written to the file.
C24_FileHoldsReceivedChunks ==
    /\ Len(download.file) = download.chunksWritten
    /\ \A i \in 1..Len(download.file) :
          download.file[i] = [chunk |-> i, bytes |-> download.received[i]]
    /\ download.pc = "read" => download.bytesReceived = download.written
    /\ download.reported >= 0 => download.reported = download.written

\* C25, as stated: the displayed speed is recomputed at every chunk arrival
\* at which at least 500 ms have elapsed since the last sample, a gap of
\* exactly 500 ms included, from the bytes and the time since that sample.
C25_SampledFrom500ms ==
    [][(download.pc = "write" /\ download'.pc = "read"
            /\ download'.now - download.lastSpeedUpdate >= 500) =>
         /\ download'.lastSpeedUpdate = download'.now
         /\ download'.currentSpeed =
               [bytes |-> download'.bytesReceived - download.lastBytesForSpeed,
                ms    |-> download'.now - download.lastSpeedUpdate]]_vars

\* C25, amended: the displayed speed is recomputed at every chunk arrival at
\* which more than 500 ms have elapsed since the last sample, from the bytes
\* received and the time elapsed since that sample (not since the start of
\* the transfer); at a gap of 500 ms or less the displayed speed, the sample
\* time and the sample byte count are kept.
C25_SampledAfter500ms ==
    [][(download.pc = "write" /\ download'.pc = "read") =>
         IF download'.now - download.lastSpeedUpdate > 500
         THEN /\ download'.lastSpeedUpdate = download'.now
              /\ download'.lastBytesForSpeed = download'.bytesReceived
              /\ download'.currentSpeed =
                    [bytes |-> download'.bytesReceived
                                  - download.lastBytesForSpeed,
                     ms    |-> download'.now - download.lastSpeedUpdate]
         ELSE /\ download'.lastSpeedUpdate = download.lastSpeedUpdate
              /\ download'.lastBytesForSpeed = download.lastBytesForSpeed
              /\ download'.currentSpeed = download.currentSpeed]_vars

\* C25: a second sample was just taken, and the speed it shows is not the
\* average since the start of the transfer.
C25_Witness ==
    /\ download.pc = "read"
    /\ download.chunksWritten = 2
    /\ download.lastSpeedUpdate = download.now
    /\ download.currentSpeed.ms < download.now
    /\ download.currentSpeed.bytes * download.now
          # download.bytesReceived * download.currentSpeed.ms

\* C26, as stated: after a chunk the remaining time is "calculating..." when
\* at most one second has elapsed or the total size is unknown; otherwise it
\* is the remaining bytes over the displayed speed, the latest sample.
C26_EtaFromLatestSample ==
    (download.pc = "read" /\ download.chunksWritten > 0) =>
        IF download.now <= 1000 \/ download.totalBytes = 0
        THEN download.eta = -1
        ELSE /\ download.currentSpeed.bytes > 0
             /\ download.eta =
                   ((download.totalBytes - download.bytesReceived)
                        * download.currentSpeed.ms)
                   \div (download.currentSpeed.bytes * 1000)

(***************************************************************************)
(* Dispatch.                                                               *)
(***************************************************************************)

\* C27, as stated: in both strategies, a selected URL that was taken from
\* the manifest set or the tagged-video set (it is a member of one of them
\* and not a direct file) is handed to executeFFmpeg, never to a byte-stream
\* download, with or without a query string after the .m3u8 extension.
C27_ManifestsGoToFFmpeg ==
    (/\ selPhase = "selected"
     /\ selection.videoUrl \in
           Members(mediaUrls.m3u8Playlists) \cup Members(mediaUrls.videoUrls)
     /\ selection.videoUrl \notin Members(mediaUrls.mp4Files)) =>
        Dispatch(selection.videoUrl) = "executeFFmpeg"

(***************************************************************************)
(* The discovery steps of the two strategies.                              *)
(***************************************************************************)

\* C28, as stated: in the full strategy the DOM scrape is performed on every
\* run, whether or not the selector search matched a video element: the
\* network wait is entered from the DOM scrape only.
C28_DomScrapeOnEveryRun ==
    [][(mainPc' = "fullNetworkWait" /\ mainPc # "fullNetworkWait") =>
           mainPc = "fullDomScrape"]_vars

\* C29: in the fast strategy the session is closed and the browserInstance
\* slot cleared before downloadFile or executeFFmpeg is started: while a
\* fast-strategy transfer or transcode runs, the slot is empty and no
\* session is open.
C29_NoSessionDuringFastTransfer ==
    mainPc \in {"fastDownload", "fastFfmpeg"} =>
        /\ browserInstance = Null
        /\ \A b \in Browsers : ~SessionOpen(b)

\* C29: a fast-strategy transfer has written a chunk after the session of
\* the fast strategy was closed.
C29_Witness ==
    /\ browserState["fastBrowser"] = "closed"
    /\ mainPc = "fastDownload"
    /\ download.chunksWritten > 0

(***************************************************************************)
(* The deep scan of API bodies.                                            *)
(***************************************************************************)

\* C30: extractVideoUrls terminates on every body of JsonBodies, from every
\* registry a pending body can settle on; when it has returned, every string found at any depth
\* of the body, in an object or an array, that holds a media-host token and
\* a media extension is a member of the registry, and the call has only
\* inserted: each set of the registry still starts with what it held.
C30_DeepScanRecordsEveryString ==
    LET RECURSIVE StringsIn(_)
        StringsIn(data) ==
            UNION {IF data.kv[i].v.t = "string"
                   THEN {data.kv[i].v.s}
                   ELSE StringsIn(data.kv[i].v) : i \in DOMAIN data.kv}
        IsMedia(value) ==
            /\ includes(value, "video.twimg.com")
                  \/ includes(value, "amp.twimg.com")
            /\ includes(value, ".mp4") \/ includes(value, ".m3u8")
    IN pendingJson => \A body \in DOMAIN JsonBodies :
          LET after == extractVideoUrls(JsonBodies[body], mediaUrls)
          IN /\ \A value \in StringsIn(JsonBodies[body]) :
                   IsMedia(value) =>
                       value \in Members(after.mp4Files)
                                    \cup Members(after.m3u8Playlists)
             /\ \A set \in DOMAIN mediaUrls :
                   /\ Len(after[set]) >= Len(mediaUrls[set])
                   /\ SubSeq(after[set], 1, Len(mediaUrls[set])) = mediaUrls[set]

\* C30: the body with nested arrays and objects was scanned: the manifest
\* two arrays deep and the poster string of the top object are recorded.
C30_Witness ==
    /\ "amp.twimg.com/s.m3u8" \in Members(mediaUrls.m3u8Playlists)
    /\ "video.twimg.com/c.mp4" \in Members(mediaUrls.mp4Files)

(***************************************************************************)
(* The two strategies side by side.                                        *)
(***************************************************************************)

\* C31, as stated: the selection code of tryFastVideoDownload and that of
\* downloadXVideo are the same function: on every registry, with the same
\* insertion order, and for every tier they choose the same video URL, and
\* the same audio URL whenever the chosen video URL is a manifest.
C31_StrategiesSelectAlike ==
    \A quality \in Tiers :
        LET fast == FastSelect(mediaUrls, quality)
            full == FullSelect(mediaUrls, quality)
        IN /\ fast.videoUrl = full.videoUrl
           /\ fast.videoUrl \in Members(mediaUrls.m3u8Playlists) =>
                 fast.audioUrl = full.audioUrl

(***************************************************************************)
(* The progress sink.                                                      *)
(***************************************************************************)

\* C32, as stated: every ratio downloadFile or executeFFmpeg passes to the
\* update of the progress indicator lies in [0, 1], for every declared total
\* and every sequence of chunks or of duration/position values, so neither
\* the completed nor the remaining part of the bar is negative.
C32_RatioWithinUnitInterval ==
    /\ 0 <= download.ratio.num /\ download.ratio.num <= download.ratio.den
    /\ BarParts(download.ratio).completed >= 0
    /\ BarParts(download.ratio).remaining >= 0
    /\ 0 <= progressRatio /\ progressRatio <= 1000

\* C33, as stated: in executeFFmpeg no progress update is emitted after the
\* indicator has been finalized: however the background reader of the
\* diagnostic stream interleaves with the wait for the exit of the
\* subprocess, the reader calls no update once finish was called, and it
\* has stopped when executeFFmpeg has returned.
C33_NoUpdateAfterFinish ==
    /\ progress["fastFfmpeg"] # "updatedAfterFinish"
    /\ ffmpegResult["fastFfmpeg"] # "none" => readerDone

\* C34, as stated: a downloadFile call that fails before any chunk is
\* received, on a GET status that is not successful or on a response without
\* a body, leaves the destination file as it was before the call: neither
\* created nor truncated.
C34_EarlyFailureLeavesDestination ==
    (/\ download.pc = "threw"
     /\ download.received = <<>>
     /\ download.get \in {"notOk", "okNoBody"}) =>
        download.destination = "untouched"

====
